---- MODULE Spec2Model ----
(***************************************************************************)
(* Chunking and incremental vector-index synchronisation of                *)
(* OpenWRT_AutoConfigure: src/config.py (the sync coordinator, the mapping *)
(* table, the retriever, the /generate_script handler) and                 *)
(* src/uci_splitter_Add_Coment.py (the chunker and its annotations).       *)
(*                                                                         *)
(* The vector index is a faiss IndexIVFFlat used through add, remove_ids,  *)
(* search and ntotal.  It is modelled by what those calls do in faiss:     *)
(*   - add(x) without explicit ids stores the vector under the id ntotal   *)
(*     and increments ntotal;                                              *)
(*   - remove_ids(ids) drops every stored vector whose id is selected and  *)
(*     decrements ntotal by the number dropped; the remaining vectors keep *)
(*     their ids;                                                          *)
(*   - ntotal is the number of vectors currently stored.                   *)
(* The index is therefore a sequence of stored vectors, each with its id   *)
(* and the text it was embedded from, and ntotal is its length.            *)
(***************************************************************************)
EXTENDS Integers, Sequences, FiniteSets, TLC

VARIABLES
    device,             \* the router: module name -> its current uci text
    cfgFiles,           \* uci_configs/*.txt: path -> chunk content
    annFiles,           \* uci_annotations/*.txt: path -> annotation
    knowFiles,          \* uci_configs/knowledge/*.txt: path -> content
    vector_db,          \* the in-memory faiss index (config.py:27)
    file_path_to_vector_id,   \* config.py:29
    vector_id_to_file_path,   \* config.py:30
    last_buffer_hash,   \* splitter.last_buffer_hash of the one UCISplitter
    diskIndex,          \* the file vector_db.index
    diskMap,            \* the file vector_mappings.json
    pc,                 \* position of the one request in flight
    req,                \* the locals of the request in flight
    response,           \* how the last request ended: "none", "ok", "error"
    nreq,               \* requests started so far
    prev                \* history: the last completed module-scoped sync

vars == << device, cfgFiles, annFiles, knowFiles, vector_db,
           file_path_to_vector_id, vector_id_to_file_path, last_buffer_hash,
           diskIndex, diskMap, pc, req, response, nreq, prev >>

(***************************************************************************)
(* Bounds of the model.                                                    *)
(***************************************************************************)
MaxRequests == 2
NumCommands == 1

(***************************************************************************)
(* Program constants.                                                      *)
(***************************************************************************)
max_chunk_size == 500
overlap == 20
top_k == 2

\* None, for a package name and for a hash: no name and no hash is empty.
None == << >>
Empty == << >>

(***************************************************************************)
(* Names.  A name is a sequence of tokens; a token holds no '.' and no     *)
(* '_', which are tokens of their own, so that prefix matching of globs    *)
(* and the normalisation of separators are computed on the name itself.    *)
(* No token of the model starts with "part".                               *)
(***************************************************************************)
Net == << "net" >>
NetX == << "net", "_", "x" >>
Modules == { Net, NetX }
ModuleOrder == << Net, NetX >>

IsPrefix(p, s) == Len(p) <= Len(s) /\ SubSeq(s, 1, Len(p)) = p

\* str.replace('.', '_')
SafeName(package) ==
    [i \in 1..Len(package) |-> IF package[i] = "." THEN "_" ELSE package[i]]

\* A file <dir>/<stem>_part<num>.txt (part) or <dir>/<stem>_<num>.txt.
ChunkPath(safe_pkg, chunk_num) ==
    [dir |-> "uci_configs", stem |-> safe_pkg, part |-> TRUE, num |-> chunk_num]
AnnotationPath(path) ==
    [path EXCEPT !.dir = "uci_annotations"]
KnowledgePath(knowledge_id) ==
    [dir |-> "uci_configs/knowledge", stem |-> << "knowledge" >>,
     part |-> FALSE, num |-> knowledge_id]

\* The file name up to its number, as tokens.
NameTokens(path) ==
    path.stem \o (IF path.part THEN << "_", "part" >> ELSE << "_" >>)

\* glob(f"{pkg_name}_part*.txt") on one file name
GlobPart(pkg_name, path) == IsPrefix(pkg_name \o << "_", "part" >>, NameTokens(path))
\* A glob that matches no file: the faulty variant of GlobAny against which
\* C29 is tested.
GlobNone(safe_pkg, path) == FALSE

\* glob(f"{safe_pkg}_*.txt") on one file name
GlobAny(safe_pkg, path) == IsPrefix(safe_pkg \o << "_" >>, NameTokens(path))
\* chunk_file.name.startswith("knowledge_")
IsKnowledgeName(path) == IsPrefix(<< "knowledge", "_" >>, NameTokens(path))

(***************************************************************************)
(* Lines of uci text.  kind "pkg" matches package_pattern, kind "cfg"      *)
(* matches config_header_pattern (a named section), the other kinds match  *)
(* neither.  len is len(line).                                             *)
(***************************************************************************)
PkgLine(m) == [kind |-> "pkg", pkg |-> m, tag |-> 0, len |-> 16]
CfgLine(t) == [kind |-> "cfg", pkg |-> Empty, tag |-> t, len |-> 24]
OptLine(t, n) == [kind |-> "opt", pkg |-> Empty, tag |-> t, len |-> n]

package_pattern(line) == line.kind = "pkg"
config_header_pattern(line) == line.kind = "cfg"

\* The texts a module of the router can hold: none (uci export prints
\* nothing), one that fits one chunk, and one that needs two chunks.
TextOne(m) == << PkgLine(m), CfgLine(1), OptLine(1, 100) >>
TextTwo(m) == << PkgLine(m), CfgLine(1), OptLine(1, 300), OptLine(2, 300) >>
Versions(m) == { Empty, TextOne(m), TextTwo(m) }

RECURSIVE SumLen(_)
SumLen(lines) ==
    IF lines = << >> THEN 0 ELSE Head(lines).len + SumLen(Tail(lines))

\* lst[-n:]
LastN(lst, n) ==
    IF n = 0 \/ n >= Len(lst) THEN lst ELSE SubSeq(lst, Len(lst) - n + 1, Len(lst))

\* hashlib.md5(...).hexdigest(): equal exactly for equal contents
Md5(content) == content

\* What a file holds.  A chunk file holds the parent-package header and the
\* buffer.  A knowledge unit holds the command and the script (known by the
\* packages it names); the retrieved texts copied into it are not tracked:
\* nothing but the prompt of a later request reads them.  One record shape
\* serves both.
ChunkContent(current_package, buffer) ==
    [head |-> current_package, body |-> buffer, cmd |-> 0, script |-> {}]
KnowledgeContent(cmd, script) ==
    [head |-> << "knowledge" >>, body |-> << >>, cmd |-> cmd, script |-> script]
NoContent == [head |-> << >>, body |-> << >>, cmd |-> 0, script |-> {}]

(***************************************************************************)
(* UCISplitter._flush_buffer: the directory after the flush, the hash      *)
(* cache, the task returned (a sequence of zero or one task) and whether   *)
(* the call raised (current_package is None at line 59).                   *)
(***************************************************************************)
FlushBuffer(buffer, current_package, files, last) ==
    IF buffer = << >>
      THEN [files |-> files, last |-> last, task |-> << >>, raised |-> FALSE]
    ELSE IF Md5(buffer) = last
      THEN [files |-> files, last |-> last, task |-> << >>, raised |-> FALSE]
    ELSE IF current_package = None
      THEN [files |-> files, last |-> Md5(buffer), task |-> << >>, raised |-> TRUE]
    ELSE
      LET safe_pkg == SafeName(current_package)
          chunk_num == Cardinality({f \in DOMAIN files : GlobAny(safe_pkg, f)}) + 1
          filename == ChunkPath(safe_pkg, chunk_num)
          content == ChunkContent(current_package, buffer)
      IN  [files |-> (filename :> content) @@ files,
           last |-> Md5(buffer),
           task |-> << [filename |-> filename, buffer_content |-> buffer,
                        pkg |-> current_package, chunk_num |-> chunk_num] >>,
           raised |-> FALSE]

\* The loop state of split_config after a flush of buf.
AfterFlush(s, buf) ==
    LET r == FlushBuffer(buf, s.cur, s.files, s.last)
    IN  [s EXCEPT !.files = r.files, !.last = r.last,
                  !.tasks = @ \o r.task, !.raised = r.raised]

\* Position of the config header closest to the start of the buffer, 0 if
\* none: the faulty variant of LastConfigPos against which C27 is tested.
FirstConfigPos(buffer, i) ==
    IF \E j \in 1..i : config_header_pattern(buffer[j])
      THEN CHOOSE j \in 1..i :
              /\ config_header_pattern(buffer[j])
              /\ \A l \in 1..(j - 1) : ~config_header_pattern(buffer[l])
      ELSE 0

\* Position of the config header closest to the end of the buffer, 0 if none
\* (last_config_pos + 1 of the source, which counts from 0).
RECURSIVE LastConfigPos(_, _)
LastConfigPos(buffer, i) ==
    IF i = 0 THEN 0
    ELSE IF config_header_pattern(buffer[i]) THEN i
    ELSE LastConfigPos(buffer, i - 1)

\* A chunker that takes the new package without flushing the buffer: the
\* faulty variant of OnPackage against which C22 is tested.
PackageUnflushed(s, line) ==
    IF package_pattern(line) THEN [s EXCEPT !.cur = line.pkg] ELSE s

\* split_config lines 82-91: a package declaration flushes the buffer.
OnPackage(s, line) ==
    IF ~package_pattern(line) THEN s
    ELSE LET t == IF s.buffer # << >>
                    THEN [AfterFlush(s, s.buffer) EXCEPT !.buffer = << >>, !.size = 0]
                    ELSE s
         IN  IF t.raised THEN t ELSE [t EXCEPT !.cur = line.pkg]

\* A chunker that does not look at the size: the faulty variant of OnLimit
\* against which C21 is tested.
NeverSplit(s, line) == s

\* split_config lines 94-124: the buffer is about to exceed the limit.
OnLimit(s, line) ==
    IF s.raised \/ ~(s.size + line.len > max_chunk_size) THEN s
    ELSE LET pos == LastConfigPos(s.buffer, Len(s.buffer))
         IN  IF pos # 0
               THEN LET chunk_part1 == SubSeq(s.buffer, 1, pos)
                        chunk_part2 == SubSeq(s.buffer, pos + 1, Len(s.buffer))
                        kept == LastN(chunk_part1, overlap) \o chunk_part2
                    IN  [AfterFlush(s, chunk_part1) EXCEPT
                            !.buffer = kept, !.size = SumLen(kept)]
               ELSE [AfterFlush(s, s.buffer) EXCEPT !.buffer = << >>, !.size = 0]

\* split_config lines 126-127
OnAppend(s, line) ==
    IF s.raised THEN s
    ELSE [s EXCEPT !.buffer = Append(@, line), !.size = @ + line.len]

RECURSIVE SplitLoop(_, _)
SplitLoop(s, lines) ==
    IF s.raised THEN s
    ELSE IF lines = << >>
      THEN IF s.buffer # << >> THEN AfterFlush(s, s.buffer) ELSE s
    ELSE SplitLoop(OnAppend(OnLimit(OnPackage(s, Head(lines)), Head(lines)),
                            Head(lines)),
                   Tail(lines))

\* split_config lines 74-133: the chunk files written, the hash cache and the
\* annotation tasks, for the text of input_file.
SplitChunks(text, files, last) ==
    SplitLoop([cur |-> None, buffer |-> << >>, size |-> 0, tasks |-> << >>,
               files |-> files, last |-> last, raised |-> FALSE], text)

(***************************************************************************)
(* Dictionaries, the index and the persisted files.                        *)
(***************************************************************************)
EmptyMap == << >>

\* A deletion that deletes nothing: the faulty variant of Without against
\* which C12 is tested.
KeepAll(d, keys) == d

\* del d[k] for every k of keys
Without(d, keys) == [k \in DOMAIN d \ keys |-> d[k]]

\* d[k] = v
Put(d, k, v) == (k :> v) @@ d

\* vector_db.ntotal
ntotal(db) == Len(db)

\* vector_db.add(embedding): the vector is stored under the id ntotal
IndexAdd(db, embedding) == Append(db, [id |-> ntotal(db), vec |-> embedding])

\* vector_db.remove_ids(ids)
RemoveIds(db, ids) == SelectSeq(db, LAMBDA v : v.id \notin ids)

\* get_embedding(text): a function of the text
GetEmbedding(text) == text

\* str(k) and int(s) of the json keys, in decimal digits
RECURSIVE ToStr(_)
ToStr(n) == IF n < 10 THEN << n >> ELSE ToStr(n \div 10) \o << n % 10 >>
RECURSIVE ToInt(_)
ToInt(s) == IF Len(s) = 1 THEN s[1]
            ELSE 10 * ToInt(SubSeq(s, 1, Len(s) - 1)) + s[Len(s)]

NoFile == [exists |-> FALSE, vectors |-> << >>]
NoMapFile == [exists |-> FALSE, file_to_id |-> EmptyMap, id_to_file |-> EmptyMap]

\* faiss.write_index(vector_db, VECTOR_DB_PATH)
WriteIndex(db) == [exists |-> TRUE, vectors |-> db]

\* save_mappings: the json document written
SaveMappings(f2i, i2f) ==
    [exists |-> TRUE,
     file_to_id |-> f2i,
     id_to_file |-> [s \in {ToStr(k) : k \in DOMAIN i2f} |-> i2f[ToInt(s)]]]

\* A load that reads nothing back: the faulty variant of LoadFileToId
\* against which C24 is tested.
LoadNothing(doc) == EmptyMap

\* load_mappings: the two dictionaries read back
LoadFileToId(doc) == IF doc.exists THEN doc.file_to_id ELSE EmptyMap
LoadIdToFile(doc) ==
    IF doc.exists
      THEN [k \in {ToInt(s) : s \in DOMAIN doc.id_to_file} |-> doc.id_to_file[ToStr(k)]]
      ELSE EmptyMap

\* Files in glob order: by module, then by number.
StemRank(path) ==
    IF \E i \in 1..Len(ModuleOrder) : SafeName(ModuleOrder[i]) = path.stem
      THEN CHOOSE i \in 1..Len(ModuleOrder) : SafeName(ModuleOrder[i]) = path.stem
      ELSE 0
Before(a, b) ==
    \/ StemRank(a) < StemRank(b)
    \/ StemRank(a) = StemRank(b) /\ a.num <= b.num
RECURSIVE GlobList(_)
GlobList(S) ==
    IF S = {} THEN << >>
    ELSE LET first == CHOOSE a \in S : \A b \in S : Before(a, b)
         IN  << first >> \o GlobList(S \ {first})

\* The first k files of chunks embedded and added, with their mapping
\* entries (config.py 200-208 and 240-250): [db, f2i, i2f].
RECURSIVE AddChunks(_, _, _, _)
AddChunks(chunks, k, files, st) ==
    IF k = 0 \/ chunks = << >> THEN st
    ELSE LET file_path == Head(chunks)
             vector_id == ntotal(st.db)
         IN  AddChunks(Tail(chunks), k - 1, files,
                 [db |-> IndexAdd(st.db, GetEmbedding(files[file_path])),
                  f2i |-> Put(st.f2i, file_path, vector_id),
                  i2f |-> Put(st.i2f, vector_id, file_path)])

\* uci export: every module's text, one after the other
RECURSIVE FullText(_, _)
FullText(dev, order) ==
    IF order = << >> THEN << >>
    ELSE dev[Head(order)] \o FullText(dev, Tail(order))

\* A chunker run that writes no annotation file: the faulty variant of
\* WriteAnnotations against which C31 is tested.
AnnotationsUnwritten(files, tasks) == files

\* split_config lines 136-150: the annotation files written for the tasks of
\* one chunker run, one per task, named as the chunk.  generate_annotation
\* returns a text in every case (the summary, or the fallback of line 42).
WriteAnnotations(files, tasks) ==
    [p \in DOMAIN files \cup {AnnotationPath(tasks[i].filename) : i \in DOMAIN tasks} |->
        IF \E i \in DOMAIN tasks : AnnotationPath(tasks[i].filename) = p
          THEN "annotation"
          ELSE files[p]]

(***************************************************************************)
(* The service.  One request is in flight at a time: generate_script is a  *)
(* coroutine without an await, so the event loop runs it to its end.       *)
(***************************************************************************)
Commands == 1..NumCommands

\* The locals of generate_script and of the sync it calls.
NoRequest ==
    [command |-> 0,                 \* request.command
     packages |-> {},               \* modified_packages
     todo |-> {},                   \* packages the loop of line 172 has not visited
     old_config_files |-> {},
     old_annotation_files |-> {},
     updated_chunks |-> << >>,
     hits |-> << >>,                \* indices[0] of the search
     relevant |-> << >>,            \* relevant_chunks
     script |-> << >>,              \* script, the code block of the draft
     result |-> << >>,              \* result, the script as validated
     outcome |-> "none",            \* what execute_script_on_router met
     caught |-> "none"]             \* the exception caught at line 481

\* History of the module-scoped syncs: the packages of the last one that
\* completed, the texts it fetched, the chunk files it left and how many of
\* these have a mapping entry; whether another module-scoped sync has begun
\* since ("done": none, "running": one, "stale": more than one); the sizes
\* of the two dictionaries when the sync now running began; the chunk files
\* the latest sync unlinked; the packages of the latest sync that began and
\* has not completed, and whether the sync now running is a replay, one
\* that began for the packages of a sync that had not completed.  A full
\* sync forgets the history.
NoSync ==
    [packages |-> {}, texts |-> << >>, removed |-> {}, names |-> {},
     card |-> 0, since |-> "none", path_to_id |-> 0, id_to_path |-> 0,
     begun |-> {}, replay |-> FALSE]
ChunkFilesOf(pkgs, dir) ==
    {f \in DOMAIN dir : \E p \in pkgs : GlobPart(SafeName(p), f)}
SyncBegins(history, pkgs, f2i, i2f) ==
    [history EXCEPT !.since = IF @ = "done" THEN "running" ELSE "stale",
                    !.replay = (history.begun = pkgs),
                    !.begun = pkgs,
                    !.path_to_id = Cardinality(DOMAIN f2i),
                    !.id_to_path = Cardinality(DOMAIN i2f)]
SyncRecord(pkgs, old_files, dev, dir, f2i) ==
    [packages |-> pkgs,
     texts |-> [m \in pkgs |-> dev[m]],
     removed |-> old_files,
     names |-> ChunkFilesOf(pkgs, dir),
     card |-> Cardinality(ChunkFilesOf(pkgs, dir) \cap DOMAIN f2i),
     since |-> "done", path_to_id |-> 0, id_to_path |-> 0,
     begun |-> {}, replay |-> FALSE]

files == << cfgFiles, annFiles, knowFiles >>
memory == << vector_db, file_path_to_vector_id, vector_id_to_file_path >>
disk == << diskIndex, diskMap >>

Init ==
    /\ device \in [Modules -> UNION {Versions(m) : m \in Modules}]
    /\ \A m \in Modules : device[m] \in Versions(m)
    /\ cfgFiles = EmptyMap
    /\ annFiles = EmptyMap
    /\ knowFiles = EmptyMap
    /\ vector_db = << >>
    /\ file_path_to_vector_id = EmptyMap
    /\ vector_id_to_file_path = EmptyMap
    /\ last_buffer_hash = None
    /\ diskIndex = NoFile
    /\ diskMap = NoMapFile
    /\ pc = "idle"
    /\ req = NoRequest
    /\ response = "none"
    /\ nreq = 0
    /\ prev = NoSync

\* generate_script lines 494-496: an exception outside the incremental-update
\* block is re-raised, the request ends in an error.
Raise ==
    /\ pc' = "idle"
    /\ response' = "error"
    /\ req' = NoRequest

\* generate_script lines 481-482: an exception of the incremental update is
\* caught and logged; the request goes on to its return.
Catch(e) ==
    /\ pc' = "respond"
    /\ req' = [req EXCEPT !.caught = e]
    /\ UNCHANGED response

\* The request goes on to the step at.
Goto(at) ==
    /\ pc' = at
    /\ UNCHANGED << req, response >>

\* generate_script lines 387-397: a request arrives.
Request(c) ==
    /\ pc = "idle"
    /\ nreq < MaxRequests
    /\ nreq' = nreq + 1
    /\ req' = [NoRequest EXCEPT !.command = c]
    /\ response' = "none"
    /\ pc' = IF DOMAIN cfgFiles = {} THEN "fs_connect" ELSE "retrieve"
    /\ UNCHANGED << prev, device, last_buffer_hash, files, memory, disk >>

(***************************************************************************)
(* sync_and_split_config                                                   *)
(***************************************************************************)
\* lines 219-224: connect, clear both dictionaries
FsConnect ==
    /\ pc = "fs_connect"
    /\ \/ /\ file_path_to_vector_id' = EmptyMap
          /\ vector_id_to_file_path' = EmptyMap
          /\ UNCHANGED vector_db
          /\ prev' = NoSync
          /\ Goto("fs_split")
       \/ /\ Raise
          /\ UNCHANGED << memory, prev >>
    /\ UNCHANGED << device, last_buffer_hash, nreq, files, disk >>

\* lines 226-237: export the whole configuration and split it
FsSplit ==
    /\ pc = "fs_split"
    /\ \/ LET r == SplitChunks(FullText(device, ModuleOrder), cfgFiles,
                               last_buffer_hash)
          IN  /\ cfgFiles' = r.files
              /\ last_buffer_hash' = r.last
              /\ IF r.raised
                   THEN /\ Raise
                        /\ UNCHANGED annFiles
                   ELSE /\ annFiles' = WriteAnnotations(annFiles, r.tasks)
                        /\ Goto("fs_add")
       \/ /\ Raise
          /\ UNCHANGED << cfgFiles, annFiles, last_buffer_hash >>
    /\ UNCHANGED << prev, device, knowFiles, nreq, memory, disk >>

\* lines 240-250: embed and add every chunk file; an embedding that fails
\* raises after the files before it were added
FsAdd ==
    /\ pc = "fs_add"
    /\ LET chunks == GlobList({f \in DOMAIN cfgFiles : ~IsKnowledgeName(f)})
       IN  \E k \in 0..Len(chunks) :
             LET st == AddChunks(chunks, k, cfgFiles,
                          [db |-> vector_db, f2i |-> file_path_to_vector_id,
                           i2f |-> vector_id_to_file_path])
             IN  /\ vector_db' = st.db
                 /\ file_path_to_vector_id' = st.f2i
                 /\ vector_id_to_file_path' = st.i2f
                 /\ IF k = Len(chunks) THEN Goto("fs_write_index") ELSE Raise
    /\ UNCHANGED << prev, device, last_buffer_hash, nreq, files, disk >>

\* line 251
FsWriteIndex ==
    /\ pc = "fs_write_index"
    /\ \/ /\ diskIndex' = WriteIndex(vector_db)
          /\ Goto("fs_save_mappings")
       \/ /\ Raise
          /\ UNCHANGED diskIndex
    /\ UNCHANGED << prev, device, last_buffer_hash, diskMap, nreq, files, memory >>

\* line 253
FsSaveMappings ==
    /\ pc = "fs_save_mappings"
    /\ \/ /\ diskMap' = SaveMappings(file_path_to_vector_id, vector_id_to_file_path)
          /\ Goto("retrieve")
       \/ /\ Raise
          /\ UNCHANGED diskMap
    /\ UNCHANGED << prev, device, last_buffer_hash, diskIndex, nreq, files, memory >>

(***************************************************************************)
(* retrieve_relevant_chunks                                                *)
(***************************************************************************)
Pad == [id |-> -1, vec |-> NoContent]

\* vector_db.search(query_embedding, top_k): up to top_k distinct stored
\* vectors, nearest first, the missing ones reported as id -1.  Which
\* vectors are nearest is the embedding model's choice.
SearchResults(db, k) ==
    LET n == IF Len(db) < k THEN Len(db) ELSE k
        picks == UNION {{f \in [1..j -> 1..Len(db)] :
                            \A a, b \in 1..j : a # b => f[a] # f[b]} : j \in 0..n}
    IN  {[i \in 1..k |-> IF i <= Len(f) THEN db[f[i]] ELSE Pad] : f \in picks}

\* open(file_path) of a mapped path
FileExists(path) == path \in DOMAIN cfgFiles \/ path \in DOMAIN knowFiles
ReadFile(path) == IF path \in DOMAIN cfgFiles THEN cfgFiles[path] ELSE knowFiles[path]

\* lines 265-277: whether a returned id contributes a text
Resolves(vector_id) ==
    /\ vector_id \in DOMAIN vector_id_to_file_path
    /\ FileExists(vector_id_to_file_path[vector_id])

\* Faulty variants of the loop of lines 262-277, against which C13 and C14
\* are tested: one that stops at the first id that does not resolve, one
\* that collects the texts in the opposite order.
RECURSIVE RelevantChunksStop(_)
RelevantChunksStop(found) ==
    IF found = << >> \/ ~Resolves(Head(found).id) THEN << >>
    ELSE << ReadFile(vector_id_to_file_path[Head(found).id]) >>
            \o RelevantChunksStop(Tail(found))
RECURSIVE RelevantChunksReversed(_)
RelevantChunksReversed(found) ==
    IF found = << >> THEN << >>
    ELSE RelevantChunksReversed(Tail(found))
            \o (IF Resolves(Head(found).id)
                  THEN << ReadFile(vector_id_to_file_path[Head(found).id]) >>
                  ELSE << >>)

\* lines 262-277
RECURSIVE RelevantChunks(_)
RelevantChunks(found) ==
    IF found = << >> THEN << >>
    ELSE (IF Resolves(Head(found).id)
            THEN << ReadFile(vector_id_to_file_path[Head(found).id]) >>
            ELSE << >>) \o RelevantChunks(Tail(found))

\* lines 256-280; the embedding of the query may fail (line 259)
Retrieve ==
    /\ pc = "retrieve"
    /\ \/ /\ \E found \in SearchResults(vector_db, top_k) :
                req' = [req EXCEPT !.hits = found,
                                   !.relevant = RelevantChunks(found)]
          /\ pc' = "llm"
          /\ UNCHANGED response
       \/ Raise
    /\ UNCHANGED << prev, device, last_buffer_hash, nreq, files, memory, disk >>

(***************************************************************************)
(* generate_script lines 404-452: the script is drafted, validated and     *)
(* executed on the router; it names the packages mods and leaves each of   *)
(* them with some text.                                                    *)
(***************************************************************************)
Execute ==
    /\ pc = "llm"
    /\ \/ /\ \E mods \in SUBSET Modules :
              \E dev \in [Modules -> UNION {Versions(m) : m \in Modules}] :
                /\ \A m \in Modules : dev[m] \in Versions(m)
                /\ \A m \in Modules \ mods : dev[m] = device[m]
                /\ device' = dev
                /\ IF mods = {}
                     THEN /\ pc' = "respond"
                          /\ req' = [req EXCEPT !.hits = << >>,
                                                !.relevant = << >>,
                                                !.caught = "no packages"]
                     ELSE /\ pc' = "ms_collect"
                          /\ req' = [req EXCEPT !.hits = << >>,
                                                !.relevant = << >>,
                                                !.packages = mods]
          /\ UNCHANGED response
       \/ /\ Raise
          /\ UNCHANGED device
    /\ UNCHANGED << prev, last_buffer_hash, nreq, files, memory, disk >>

(***************************************************************************)
(* sync_modified_config                                                    *)
(***************************************************************************)
\* lines 129-142: connect, list the old files of the packages
MsCollect ==
    /\ pc = "ms_collect"
    /\ \/ /\ req' = [req EXCEPT
                !.old_config_files = ChunkFilesOf(req.packages, cfgFiles),
                !.old_annotation_files = ChunkFilesOf(req.packages, annFiles)]
          /\ pc' = "ms_remove"
          /\ prev' = SyncBegins(prev, req.packages, file_path_to_vector_id,
                                vector_id_to_file_path)
          /\ UNCHANGED response
       \/ /\ Catch("connect")
          /\ UNCHANGED prev
    /\ UNCHANGED << device, last_buffer_hash, nreq, files, memory, disk >>

\* lines 145-149
DeleteVectorIds(old_files, f2i) == {f2i[f] : f \in old_files \cap DOMAIN f2i}

\* Lines 150-160 with the mapping entries deleted before remove_ids is
\* called: the faulty variant of RemoveOld against which C25 is tested.
RemoveOldEntriesFirst(db, f2i, i2f, old_files, ids, fails) ==
    [db |-> IF fails THEN db ELSE RemoveIds(db, ids),
     f2i |-> Without(f2i, old_files),
     i2f |-> Without(i2f, ids),
     raised |-> fails]

\* Lines 150-160 left out, the old files unlinked all the same: the faulty
\* variant of RemoveOld against which C26 is tested.
RemovalSkipped(db, f2i, i2f, old_files, ids, fails) ==
    [db |-> db, f2i |-> f2i, i2f |-> i2f, raised |-> FALSE]

\* lines 150-160: remove_ids is called with all the ids; when it has
\* returned the entries of the old files are deleted from both
\* dictionaries; when it raises, the statements after it are not run.
RemoveOld(db, f2i, i2f, old_files, ids, fails) ==
    IF fails
      THEN [db |-> db, f2i |-> f2i, i2f |-> i2f, raised |-> TRUE]
      ELSE [db |-> RemoveIds(db, ids),
            f2i |-> Without(f2i, old_files),
            i2f |-> Without(i2f, ids),
            raised |-> FALSE]

\* lines 144-160: remove the old vectors, then their mapping entries
MsRemove ==
    /\ pc = "ms_remove"
    /\ LET delete_vector_ids ==
               DeleteVectorIds(req.old_config_files, file_path_to_vector_id)
       IN  IF delete_vector_ids = {}
             THEN /\ Goto("ms_unlink")
                  /\ UNCHANGED memory
             ELSE \E fails \in BOOLEAN :
                    LET r == RemoveOld(vector_db, file_path_to_vector_id,
                                       vector_id_to_file_path,
                                       req.old_config_files, delete_vector_ids,
                                       fails)
                    IN  /\ vector_db' = r.db
                        /\ file_path_to_vector_id' = r.f2i
                        /\ vector_id_to_file_path' = r.i2f
                        /\ IF r.raised THEN Catch("remove_ids")
                                       ELSE Goto("ms_unlink")
    /\ UNCHANGED << prev, device, last_buffer_hash, nreq, files, disk >>

\* lines 162-168: unlink the old chunk files and the old annotation files
MsUnlink ==
    /\ pc = "ms_unlink"
    /\ cfgFiles' = Without(cfgFiles, req.old_config_files)
    /\ annFiles' = Without(annFiles, req.old_annotation_files)
    /\ req' = [req EXCEPT !.todo = req.packages, !.updated_chunks = << >>]
    /\ pc' = "ms_generate"
    /\ prev' = [prev EXCEPT !.removed = req.old_config_files]
    /\ UNCHANGED << device, knowFiles, last_buffer_hash, response, nreq,
                    memory, disk >>

\* lines 172-195, one round of the loop for a package not yet visited (a
\* set is visited in no fixed order); line 197 when none is left
MsGenerate ==
    /\ pc = "ms_generate"
    /\ \/ /\ req.todo # {}
          /\ \E package \in req.todo :
                \/ /\ device[package] = Empty
                   /\ req' = [req EXCEPT !.todo = @ \ {package}]
                   /\ UNCHANGED << cfgFiles, annFiles, last_buffer_hash, pc, response >>
                \/ /\ device[package] # Empty
                   /\ LET r == SplitChunks(device[package], cfgFiles, last_buffer_hash)
                          new_config_chunks ==
                              GlobList({f \in DOMAIN r.files :
                                           GlobPart(SafeName(package), f)})
                      IN  /\ cfgFiles' = r.files
                          /\ last_buffer_hash' = r.last
                          /\ IF r.raised
                               THEN /\ Catch("split")
                                    /\ UNCHANGED annFiles
                               ELSE /\ annFiles' = WriteAnnotations(annFiles, r.tasks)
                                    /\ req' = [req EXCEPT
                                          !.todo = @ \ {package},
                                          !.updated_chunks = @ \o new_config_chunks]
                                    /\ UNCHANGED << pc, response >>
                \/ /\ Catch("fetch")
                   /\ UNCHANGED << cfgFiles, annFiles, last_buffer_hash >>
       \/ /\ req.todo = {}
          /\ Goto("ms_add")
          /\ UNCHANGED << cfgFiles, annFiles, last_buffer_hash >>
    /\ UNCHANGED << prev, device, knowFiles, nreq, memory, disk >>

\* lines 199-208: embed and add every new chunk; an embedding that fails
\* raises after the chunks before it were added
MsAdd ==
    /\ pc = "ms_add"
    /\ \E k \in 0..Len(req.updated_chunks) :
         LET st == AddChunks(req.updated_chunks, k, cfgFiles,
                      [db |-> vector_db, f2i |-> file_path_to_vector_id,
                       i2f |-> vector_id_to_file_path])
         IN  /\ vector_db' = st.db
             /\ file_path_to_vector_id' = st.f2i
             /\ vector_id_to_file_path' = st.i2f
             /\ IF k = Len(req.updated_chunks)
                  THEN Goto("ms_write_index")
                  ELSE Catch("embedding")
    /\ UNCHANGED << prev, device, last_buffer_hash, nreq, files, disk >>

\* line 210
MsWriteIndex ==
    /\ pc = "ms_write_index"
    /\ \/ /\ diskIndex' = WriteIndex(vector_db)
          /\ Goto("ms_save_mappings")
       \/ /\ Catch("write_index")
          /\ UNCHANGED diskIndex
    /\ UNCHANGED << prev, device, last_buffer_hash, diskMap, nreq, files, memory >>

\* line 212
MsSaveMappings ==
    /\ pc = "ms_save_mappings"
    /\ \/ /\ diskMap' = SaveMappings(file_path_to_vector_id, vector_id_to_file_path)
          /\ prev' = SyncRecord(req.packages, req.old_config_files, device,
                              cfgFiles, file_path_to_vector_id)
          /\ Goto("ku_write")
       \/ /\ Catch("save_mappings")
          /\ UNCHANGED << diskMap, prev >>
    /\ UNCHANGED << device, last_buffer_hash, diskIndex, nreq, files, memory >>

(***************************************************************************)
(* generate_script lines 454-492: the knowledge unit and the response      *)
(***************************************************************************)
\* hashlib.md5(command).hexdigest()[:8]: equal exactly for equal commands
KnowledgeId(cmd) == cmd

\* lines 455-461
KuWrite ==
    /\ pc = "ku_write"
    /\ knowFiles' = Put(knowFiles, KnowledgePath(KnowledgeId(req.command)),
                        KnowledgeContent(req.command, req.packages))
    /\ Goto("ku_add")
    /\ UNCHANGED << prev, device, cfgFiles, annFiles, last_buffer_hash, nreq, memory, disk >>

\* lines 464-469
KuAdd ==
    /\ pc = "ku_add"
    /\ \/ LET file_path == KnowledgePath(KnowledgeId(req.command))
              vector_id == ntotal(vector_db)
          IN  /\ vector_db' = IndexAdd(vector_db, GetEmbedding(knowFiles[file_path]))
              /\ file_path_to_vector_id' = Put(file_path_to_vector_id, file_path, vector_id)
              /\ vector_id_to_file_path' = Put(vector_id_to_file_path, vector_id, file_path)
              /\ Goto("ku_write_index")
       \/ /\ Catch("embedding")
          /\ UNCHANGED memory
    /\ UNCHANGED << prev, device, last_buffer_hash, nreq, files, disk >>

\* line 470
KuWriteIndex ==
    /\ pc = "ku_write_index"
    /\ \/ /\ diskIndex' = WriteIndex(vector_db)
          /\ Goto("ku_save_mappings")
       \/ /\ Catch("write_index")
          /\ UNCHANGED diskIndex
    /\ UNCHANGED << prev, device, last_buffer_hash, diskMap, nreq, files, memory >>

\* line 472
KuSaveMappings ==
    /\ pc = "ku_save_mappings"
    /\ \/ /\ diskMap' = SaveMappings(file_path_to_vector_id, vector_id_to_file_path)
          /\ Goto("ku_annotation")
       \/ /\ Catch("save_mappings")
          /\ UNCHANGED diskMap
    /\ UNCHANGED << prev, device, last_buffer_hash, diskIndex, nreq, files, memory >>

\* lines 477-479: the annotation file of the knowledge unit
KuAnnotation ==
    /\ pc = "ku_annotation"
    /\ annFiles' = Put(annFiles,
                       AnnotationPath(KnowledgePath(KnowledgeId(req.command))),
                       "answer")
    /\ Goto("respond")
    /\ UNCHANGED << prev, device, cfgFiles, knowFiles, last_buffer_hash, nreq, memory, disk >>

\* lines 484-492: the request returns its result
Respond ==
    /\ pc = "respond"
    /\ pc' = "idle"
    /\ response' = "ok"
    /\ req' = NoRequest
    /\ UNCHANGED << prev, device, last_buffer_hash, nreq, files, memory, disk >>

(***************************************************************************)
(* The process ends and starts again: the module is imported anew (lines   *)
(* 25-30) and initialize_vector_db runs (lines 93-106, 499).               *)
(***************************************************************************)
Startup ==
    /\ vector_db' = IF diskIndex.exists THEN diskIndex.vectors ELSE << >>
    /\ file_path_to_vector_id' =
          IF diskIndex.exists THEN LoadFileToId(diskMap) ELSE EmptyMap
    /\ vector_id_to_file_path' =
          IF diskIndex.exists THEN LoadIdToFile(diskMap) ELSE EmptyMap
    /\ last_buffer_hash' = None
    /\ pc' = "idle"
    /\ req' = NoRequest
    /\ UNCHANGED << prev, device, nreq, files, disk >>

\* The process dies while a request is in flight.
Crash ==
    /\ pc # "idle"
    /\ response' = "error"
    /\ Startup

\* The service is stopped between requests and started again.
Restart ==
    /\ pc = "idle"
    /\ nreq > 0
    /\ UNCHANGED response
    /\ Startup

Next ==
    \/ \E c \in Commands : Request(c)
    \/ FsConnect \/ FsSplit \/ FsAdd \/ FsWriteIndex \/ FsSaveMappings
    \/ Retrieve
    \/ Execute
    \/ MsCollect \/ MsRemove \/ MsUnlink \/ MsGenerate \/ MsAdd
    \/ MsWriteIndex \/ MsSaveMappings
    \/ KuWrite \/ KuAdd \/ KuWriteIndex \/ KuSaveMappings \/ KuAnnotation
    \/ Respond
    \/ Crash \/ Restart

Spec == Init /\ [][Next]_vars

(***************************************************************************)
(* The chunker run in its steps.  A second specification follows one       *)
(* split_config call after the other as the full sync makes them: the      *)
(* lines are split and the chunk files written (lines 74-133), the         *)
(* annotation of every chunk written is generated on a thread pool and     *)
(* written as its future completes, in any order (lines 136-150), the call *)
(* returns when the pool has shut down, and the caller then embeds and     *)
(* registers the chunk files (config.py 240-250).  The input is any text   *)
(* of up to MaxLines lines.  The request holds the locals of the run.      *)
(***************************************************************************)
MaxRuns == 2
MaxLines == 3

Lines == { PkgLine(Net), CfgLine(1), OptLine(1, 100), OptLine(1, 490) }
Texts == UNION { [1..n -> Lines] : n \in 0..MaxLines }

\* What client.chat.completions.create does for one prompt: it returns a
\* response that holds a summary, it raises a timeout or another error, or
\* it returns a response that is malformed: one without a choice (choices[0]
\* raises IndexError) or one whose content is None (.strip() raises
\* AttributeError).
Outcomes == { "summary", "timeout", "error", "malformed" }
Failures == Outcomes \ { "summary" }

Summary(current_package, chunk_num) ==
    [kind |-> "summary", pkg |-> current_package, chunk_num |-> chunk_num]
\* f"This is the {chunk_num}th chunk file of the {current_package} package."
Fallback(current_package, chunk_num) ==
    [kind |-> "fallback", pkg |-> current_package, chunk_num |-> chunk_num]

\* A generate_annotation without the except clause of lines 40-42: the
\* faulty variant against which C15 is tested.
AnnotationUncaught(outcome, current_package, chunk_num) ==
    IF outcome = "summary"
      THEN [raised |-> FALSE, text |-> Summary(current_package, chunk_num)]
      ELSE [raised |-> TRUE, text |-> None]

\* generate_annotation lines 26-42: what the call returns and whether it
\* raised.  Every exception of the try block is caught at line 40.
GenerateAnnotation(outcome, current_package, chunk_num) ==
    IF outcome = "summary"
      THEN [raised |-> FALSE, text |-> Summary(current_package, chunk_num)]
      ELSE [raised |-> FALSE, text |-> Fallback(current_package, chunk_num)]

\* The locals of one split_config call: the text of input_file, the tasks,
\* the futures not completed yet and what the summarizer did for the others.
NoRun == [input |-> << >>, tasks |-> << >>, pending |-> {}, outcome |-> << >>]

InitSplit ==
    /\ device = [m \in Modules |-> Empty]
    /\ cfgFiles = EmptyMap
    /\ annFiles = EmptyMap
    /\ knowFiles = EmptyMap
    /\ vector_db = << >>
    /\ file_path_to_vector_id = EmptyMap
    /\ vector_id_to_file_path = EmptyMap
    /\ last_buffer_hash = None
    /\ diskIndex = NoFile
    /\ diskMap = NoMapFile
    /\ pc = "idle"
    /\ req = NoRun
    /\ response = "none"
    /\ nreq = 0
    /\ prev = NoSync

\* config.py 394, 223-224 and 237, split_config lines 74-133: the directory
\* holds no chunk file; the mappings are cleared, the text is split and the
\* chunk files are written; an exception of the chunker ends the run.
SplitLines ==
    /\ pc = "idle"
    /\ nreq < MaxRuns
    /\ DOMAIN cfgFiles = {}
    /\ nreq' = nreq + 1
    /\ \E text \in Texts :
         LET r == SplitChunks(text, cfgFiles, last_buffer_hash)
         IN  /\ cfgFiles' = r.files
             /\ last_buffer_hash' = r.last
             /\ req' = [input |-> text, tasks |-> r.tasks,
                        pending |-> DOMAIN r.tasks, outcome |-> << >>]
             /\ pc' = IF r.raised THEN "idle" ELSE "annotate"
             /\ response' = IF r.raised THEN "error" ELSE "none"
    /\ file_path_to_vector_id' = EmptyMap
    /\ vector_id_to_file_path' = EmptyMap
    /\ UNCHANGED << device, annFiles, knowFiles, vector_db, disk, prev >>

\* split_config lines 138-150: one future completes; its annotation is
\* written, or the exception of future.result() is caught at line 149.
Annotate ==
    /\ pc = "annotate"
    /\ \E i \in req.pending, outcome \in Outcomes :
         LET task == req.tasks[i]
             annotation == GenerateAnnotation(outcome, task.pkg, task.chunk_num)
         IN  /\ annFiles' = IF annotation.raised THEN annFiles
                            ELSE Put(annFiles, AnnotationPath(task.filename),
                                     annotation.text)
             /\ req' = [req EXCEPT !.pending = @ \ {i},
                                   !.outcome = Put(@, i, outcome)]
    /\ UNCHANGED << device, cfgFiles, knowFiles, memory, last_buffer_hash,
                    disk, pc, response, nreq, prev >>

\* Registration can begin: split_config has returned.
CanRegister == pc = "register"

\* split_config line 136: the with block of the thread pool is left, and
\* split_config returns, when every future has completed.
SplitReturns ==
    /\ pc = "annotate"
    /\ req.pending = {}
    /\ pc' = "register"
    /\ UNCHANGED << device, files, memory, last_buffer_hash, disk, req,
                    response, nreq, prev >>

\* config.py 240-250: every chunk file of the directory is embedded and
\* added, with its two mapping entries.
Register ==
    /\ CanRegister
    /\ LET chunks == GlobList({f \in DOMAIN cfgFiles : ~IsKnowledgeName(f)})
           st == AddChunks(chunks, Len(chunks), cfgFiles,
                    [db |-> vector_db, f2i |-> file_path_to_vector_id,
                     i2f |-> vector_id_to_file_path])
       IN  /\ vector_db' = st.db
           /\ file_path_to_vector_id' = st.f2i
           /\ vector_id_to_file_path' = st.i2f
    /\ pc' = "idle"
    /\ response' = "ok"
    /\ req' = NoRun
    /\ UNCHANGED << device, files, last_buffer_hash, disk, nreq, prev >>

NextSplit ==
    \/ SplitLines
    \/ Annotate
    \/ SplitReturns
    \/ Register

SpecSplit == InitSplit /\ [][NextSplit]_vars

(***************************************************************************)
(* The chunker line by line.  A fourth specification follows the loop of   *)
(* split_config (lines 74-133) through one input after the other, one line *)
(* a step, on the output directory the runs before left.  Between two runs *)
(* the chunk files of a module may be unlinked, as the module-scoped sync  *)
(* does before it regenerates them (config.py 158-161).  The request holds *)
(* the locals of split_config and the lines not read yet; the history is   *)
(* the buffer of the chunk file written last, by this run or one before.   *)
(***************************************************************************)
MaxChunkRuns == 2
MaxChunkLines == 4

ChunkLines ==
    { PkgLine(Net), PkgLine(NetX), CfgLine(1), OptLine(1, 300), OptLine(1, 490) }
ChunkTexts == UNION { [1..n -> ChunkLines] : n \in 1..MaxChunkLines }

\* lines 74-77, before the first line is read
NoLoop ==
    [input |-> << >>, rest |-> << >>, cur |-> None, buffer |-> << >>,
     size |-> 0, tasks |-> << >>]

\* The loop state of split_config, of the locals and the directory.
LoopState ==
    [cur |-> req.cur, buffer |-> req.buffer, size |-> req.size,
     tasks |-> req.tasks, files |-> cfgFiles, last |-> last_buffer_hash,
     raised |-> FALSE]

InitChunk ==
    /\ device = [m \in Modules |-> Empty]
    /\ cfgFiles = EmptyMap
    /\ annFiles = EmptyMap
    /\ knowFiles = EmptyMap
    /\ vector_db = << >>
    /\ file_path_to_vector_id = EmptyMap
    /\ vector_id_to_file_path = EmptyMap
    /\ last_buffer_hash = None
    /\ diskIndex = NoFile
    /\ diskMap = NoMapFile
    /\ pc = "idle"
    /\ req = NoLoop
    /\ response = "none"
    /\ nreq = 0
    /\ prev = None

\* The packages some lines declare.
Declared(text) == {text[i].pkg : i \in {j \in DOMAIN text : package_pattern(text[j])}}

\* lines 68-79: split_config is called and opens input_file.  Its callers
\* call it for a package when the directory holds no chunk file of the
\* package: the full sync runs on a directory without chunk files
\* (config.py 394), the module-scoped sync has unlinked the files of the
\* package (config.py 158-161).
ChunkBegin ==
    /\ pc = "idle"
    /\ nreq < MaxChunkRuns
    /\ nreq' = nreq + 1
    /\ \E text \in ChunkTexts :
          /\ ChunkFilesOf(Declared(text), cfgFiles) = {}
          /\ req' = [NoLoop EXCEPT !.input = text, !.rest = text]
    /\ pc' = "lines"
    /\ response' = "none"
    /\ UNCHANGED << device, files, memory, last_buffer_hash, disk, prev >>

\* The locals and the directory after the loop state s, with the lines rest
\* left to read; the run ends by an exception or after the last flush.
ChunkGoes(s, rest, ends) ==
    /\ cfgFiles' = s.files
    /\ last_buffer_hash' = s.last
    /\ req' = [input |-> req.input, rest |-> rest, cur |-> s.cur,
               buffer |-> s.buffer, size |-> s.size, tasks |-> s.tasks]
    /\ prev' = IF Len(s.tasks) > Len(req.tasks)
                 THEN s.tasks[Len(s.tasks)].buffer_content
                 ELSE prev
    /\ pc' = IF s.raised \/ ends THEN "idle" ELSE "lines"
    /\ response' = IF s.raised THEN "error" ELSE IF ends THEN "ok" ELSE "none"

\* lines 80-127: one line is read
ChunkLine ==
    /\ pc = "lines"
    /\ req.rest # << >>
    /\ LET line == Head(req.rest)
       IN  ChunkGoes(OnAppend(OnLimit(OnPackage(LoopState, line), line), line),
                     Tail(req.rest), FALSE)
    /\ UNCHANGED << device, annFiles, knowFiles, memory, disk, nreq >>

\* lines 129-133: the file is read, what the buffer holds is flushed
ChunkEnd ==
    /\ pc = "lines"
    /\ req.rest = << >>
    /\ ChunkGoes(IF req.buffer # << >> THEN AfterFlush(LoopState, req.buffer)
                 ELSE LoopState,
                 << >>, TRUE)
    /\ UNCHANGED << device, annFiles, knowFiles, memory, disk, nreq >>

\* config.py 139 and 158-161: between two runs the chunk files of a module
\* are unlinked
ChunkUnlink ==
    /\ pc = "idle"
    /\ 0 < nreq /\ nreq < MaxChunkRuns
    /\ \E package \in Modules :
          /\ \E f \in DOMAIN cfgFiles : GlobPart(SafeName(package), f)
          /\ cfgFiles' = Without(cfgFiles,
                            {f \in DOMAIN cfgFiles : GlobPart(SafeName(package), f)})
    /\ UNCHANGED << device, annFiles, knowFiles, memory, last_buffer_hash,
                    disk, pc, req, response, nreq, prev >>

NextChunk ==
    \/ ChunkBegin
    \/ ChunkLine
    \/ ChunkEnd
    \/ ChunkUnlink

SpecChunk == InitChunk /\ [][NextChunk]_vars

(***************************************************************************)
(* Concurrent requests.  The backend is one uvicorn process (run_app.py    *)
(* 89-99) and generate_script is a coroutine (async def, line 387): every  *)
(* request is a task of the one event loop, which runs one task at a time  *)
(* and takes the next one only when the running task ends or suspends at   *)
(* an await.  A third specification follows the tasks of up to MaxHandlers *)
(* requests through the steps of generate_script.  Here the request holds  *)
(* the state of the loop, and pc is the step of the task that runs.        *)
(***************************************************************************)
MaxHandlers == 3

\* A generate_script that awaited the deletion of the old files: the faulty
\* variant against which C17 is tested.
AwaitInSync == { "ms_unlink" }

\* The steps of generate_script that suspend the coroutine: the statements
\* with an await.  Lines 387-496 and the functions they call hold none.
AwaitPoints == {}

\* The steps that can follow a step of generate_script: the next statement,
\* the return after the except clause of line 481 ("respond"), or the end
\* of the task ("done") by the return or by the exception raised again at
\* line 496.
Successors(at) ==
    CASE at = "start" -> { "fs_connect", "retrieve" }
      [] at = "fs_connect" -> { "fs_split", "done" }
      [] at = "fs_split" -> { "fs_add", "done" }
      [] at = "fs_add" -> { "fs_write_index", "done" }
      [] at = "fs_write_index" -> { "fs_save_mappings", "done" }
      [] at = "fs_save_mappings" -> { "retrieve", "done" }
      [] at = "retrieve" -> { "llm", "done" }
      [] at = "llm" -> { "ms_collect", "respond", "done" }
      [] at = "ms_collect" -> { "ms_remove", "respond" }
      [] at = "ms_remove" -> { "ms_unlink", "respond" }
      [] at = "ms_unlink" -> { "ms_generate" }
      [] at = "ms_generate" -> { "ms_add", "respond" }
      [] at = "ms_add" -> { "ms_write_index", "respond" }
      [] at = "ms_write_index" -> { "ms_save_mappings", "respond" }
      [] at = "ms_save_mappings" -> { "ku_write", "respond" }
      [] at = "ku_write" -> { "ku_add" }
      [] at = "ku_add" -> { "ku_write_index", "respond" }
      [] at = "ku_write_index" -> { "ku_save_mappings", "respond" }
      [] at = "ku_save_mappings" -> { "ku_annotation", "respond" }
      [] at = "ku_annotation" -> { "respond" }
      [] at = "respond" -> { "done" }

\* The steps inside a sync operation: the full sync after its connect
\* (lines 223-253) and the module-scoped sync after its collection of the
\* old files (lines 145-212).
SyncSteps ==
    { "fs_split", "fs_add", "fs_write_index", "fs_save_mappings",
      "ms_remove", "ms_unlink", "ms_generate", "ms_add", "ms_write_index",
      "ms_save_mappings" }

\* The event loop: the task that runs (0: none) and the tasks ready to run,
\* each with the step it runs next.
NoTasks == [running |-> 0, ready |-> << >>]

InitLoop ==
    /\ device = [m \in Modules |-> Empty]
    /\ cfgFiles = EmptyMap
    /\ annFiles = EmptyMap
    /\ knowFiles = EmptyMap
    /\ vector_db = << >>
    /\ file_path_to_vector_id = EmptyMap
    /\ vector_id_to_file_path = EmptyMap
    /\ last_buffer_hash = None
    /\ diskIndex = NoFile
    /\ diskMap = NoMapFile
    /\ pc = "idle"
    /\ req = NoTasks
    /\ response = "none"
    /\ nreq = 0
    /\ prev = NoSync

\* line 386: a POST /generate_script arrives; its task is ready to run.
Arrive ==
    /\ nreq < MaxHandlers
    /\ nreq' = nreq + 1
    /\ req' = [req EXCEPT !.ready = Append(@, [h |-> nreq + 1, at |-> "start"])]
    /\ UNCHANGED << device, files, memory, last_buffer_hash, disk, pc,
                    response, prev >>

\* The loop, with no task running, runs the first ready task from the step
\* it stopped before.
RunTask ==
    /\ req.running = 0
    /\ req.ready # << >>
    /\ req' = [running |-> Head(req.ready).h, ready |-> Tail(req.ready)]
    /\ pc' = Head(req.ready).at
    /\ UNCHANGED << device, files, memory, last_buffer_hash, disk, response,
                    nreq, prev >>

\* The running task makes its step.  The task then ends, or suspends when
\* the step awaited and is ready again, or goes on to its next step.
Step ==
    /\ req.running # 0
    /\ \E next \in Successors(pc) :
         IF next = "done"
           THEN /\ req' = [req EXCEPT !.running = 0]
                /\ pc' = "idle"
         ELSE IF pc \in AwaitPoints
           THEN /\ req' = [running |-> 0,
                           ready |-> Append(req.ready,
                                            [h |-> req.running, at |-> next])]
                /\ pc' = "idle"
         ELSE /\ pc' = next
              /\ UNCHANGED req
    /\ UNCHANGED << device, files, memory, last_buffer_hash, disk, response,
                    nreq, prev >>

NextLoop ==
    \/ Arrive
    \/ RunTask
    \/ Step

SpecLoop == InitLoop /\ [][NextLoop]_vars

(***************************************************************************)
(* The script of a request.  A fifth specification follows generate_script *)
(* with the script it drafts: the code block is extracted (lines 403-432), *)
(* validated (lines 435-437, validate_uci_script), executed on the router  *)
(* (lines 440-442, execute_script_on_router), its packages are extracted   *)
(* (line 447, get_modified_packages) and the module-scoped sync and the    *)
(* knowledge unit follow as in the service.  A script is a sequence of     *)
(* lines, a line a sequence of tokens: a uci command on a module, '#', '"' *)
(* and the words of the validator's list.                                  *)
(***************************************************************************)
MaxScriptRequests == 1
MaxScriptLines == 2
MaxScriptTokens == 3

Word(w) == [kind |-> w, pkg |-> Empty]
\* "uci set <m>.<section>...": a match of the pattern of line 110
Uci(m) == [kind |-> "uci set", pkg |-> m]
Hash == Word("#")
Quote == Word("\"")

ScriptTokens == { Uci(Net), Uci(NetX), Hash, Quote, Word("rm ") }
ScriptLines == UNION { [1..n -> ScriptTokens] : n \in 0..MaxScriptTokens }
RECURSIVE CountTokens(_)
CountTokens(script) ==
    IF script = << >> THEN 0 ELSE Len(Head(script)) + CountTokens(Tail(script))
Scripts ==
    { script \in UNION { [1..n -> ScriptLines] : n \in 1..MaxScriptLines } :
         CountTokens(script) <= MaxScriptTokens }

\* config.py line 308
dangerous_commands == { "rm ", "mv ", " dd ", "format ", "mkfs ", ">", ">>" }

\* line.split(sep)[0]: the line up to the first sep, the line if none
SplitHead(line, sep) ==
    IF \E i \in DOMAIN line : line[i] = sep
      THEN LET first == CHOOSE i \in DOMAIN line :
                            /\ line[i] = sep
                            /\ \A j \in 1..(i - 1) : line[j] # sep
           IN  SubSeq(line, 1, first - 1)
      ELSE line

\* lines 310-316: what of a line the validator compares with the list;
\* nothing of a line that starts with '#'
Examined(line) ==
    IF line # << >> /\ Head(line) = Hash THEN << >>
    ELSE SplitHead(SplitHead(line, Hash), Quote)

ShebangLine == << Hash, Word("!/bin/sh") >>
TrapLine == << Word("trap") >>

\* lines 325-329: the shebang line and the trap line added when absent
Hardened(script) ==
    (IF IsPrefix(ShebangLine, Head(script)) THEN << >> ELSE << ShebangLine >>)
    \o script
    \o (IF \E i \in DOMAIN script : \E j \in DOMAIN script[i] :
               script[i][j] = Word("trap")
          THEN << >> ELSE << TrapLine >>)

\* validate_uci_script, lines 297-332: (is_valid, the script or the message)
validate_uci_script(script) ==
    IF \A i \in DOMAIN script : script[i] = << >>
      THEN [is_valid |-> FALSE, result |-> None]
    ELSE IF \E i \in DOMAIN script : \E j \in DOMAIN Examined(script[i]) :
                Examined(script[i])[j].kind \in dangerous_commands
      THEN [is_valid |-> FALSE, result |-> None]
    ELSE [is_valid |-> TRUE, result |-> Hardened(script)]

\* get_modified_packages, lines 108-124: the package of the first match of
\* every line that has one
get_modified_packages(script) ==
    { script[i][
          CHOOSE j \in DOMAIN script[i] :
              /\ script[i][j].kind = "uci set"
              /\ \A k \in 1..(j - 1) : script[i][k].kind # "uci set" ].pkg :
      i \in { l \in DOMAIN script :
                 \E j \in DOMAIN script[l] : script[l][j].kind = "uci set" } }

\* execute_script_on_router, lines 334-384: the script ran and wrote nothing
\* to stderr; it ran and wrote to stderr; an exception was raised before
\* the command was sent (connect, upload) or after it (the read timed out).
ExecutionOutcomes == { "ok", "stderr", "ssh before", "ssh after" }
Ran(outcome) == outcome \in { "ok", "stderr", "ssh after" }
\* An execution taken for a success whatever it met: the faulty variant of
\* ExecutionSucceeded against which C34 is tested.
ExecutionUnchecked(outcome) == TRUE
\* lines 379-384: success, the first of the pair returned
ExecutionSucceeded(outcome) == outcome = "ok"

\* lines 403-432: the draft of the language model and its code block; no
\* code block (None) or an empty one raises at line 432
Draft ==
    /\ pc = "llm"
    /\ \/ \E script \in Scripts \cup { None } :
             IF script = None \/ script = << << >> >>
               THEN Raise
               ELSE /\ req' = [req EXCEPT !.hits = << >>, !.relevant = << >>,
                                          !.script = script]
                    /\ pc' = "validate"
                    /\ UNCHANGED response
       \/ Raise
    /\ UNCHANGED << prev, device, last_buffer_hash, nreq, files, memory, disk >>

\* lines 435-437
Validate ==
    /\ pc = "validate"
    /\ LET checked == validate_uci_script(req.script)
       IN  IF checked.is_valid
             THEN /\ req' = [req EXCEPT !.result = checked.result]
                  /\ pc' = "execute"
                  /\ UNCHANGED response
             ELSE Raise
    /\ UNCHANGED << prev, device, last_buffer_hash, nreq, files, memory, disk >>

\* line 440: the validated script is sent to the router; when it ran, the
\* modules it names have some text
ExecuteScript ==
    /\ pc = "execute"
    /\ \E outcome \in ExecutionOutcomes :
         /\ req' = [req EXCEPT !.outcome = outcome]
         /\ IF Ran(outcome)
              THEN \E dev \in [Modules -> UNION {Versions(m) : m \in Modules}] :
                     /\ \A m \in Modules : dev[m] \in Versions(m)
                     /\ \A m \in Modules \ get_modified_packages(req.result) :
                            dev[m] = device[m]
                     /\ device' = dev
              ELSE UNCHANGED device
    /\ pc' = "executed"
    /\ UNCHANGED << prev, last_buffer_hash, response, nreq, files, memory, disk >>

\* lines 441-442
CheckExecution ==
    /\ pc = "executed"
    /\ IF ExecutionSucceeded(req.outcome) THEN Goto("packages") ELSE Raise
    /\ UNCHANGED << prev, device, last_buffer_hash, nreq, files, memory, disk >>

\* lines 445-450: the packages of the script; none raises ValueError, which
\* line 481 catches.  The steps that follow know the script by its packages.
Packages ==
    /\ pc = "packages"
    /\ LET modified_packages == get_modified_packages(req.script)
       IN  IF modified_packages = {}
             THEN Catch("no packages")
             ELSE /\ req' = [req EXCEPT !.packages = modified_packages,
                                        !.script = None, !.result = None]
                  /\ pc' = "ms_collect"
                  /\ UNCHANGED response
    /\ UNCHANGED << prev, device, last_buffer_hash, nreq, files, memory, disk >>

NextScript ==
    \/ nreq < MaxScriptRequests /\ \E c \in Commands : Request(c)
    \/ FsConnect \/ FsSplit \/ FsAdd \/ FsWriteIndex \/ FsSaveMappings
    \/ Retrieve
    \/ Draft \/ Validate \/ ExecuteScript \/ CheckExecution \/ Packages
    \/ MsCollect \/ MsRemove \/ MsUnlink \/ MsGenerate \/ MsAdd
    \/ MsWriteIndex \/ MsSaveMappings
    \/ KuWrite \/ KuAdd \/ KuWriteIndex \/ KuSaveMappings \/ KuAnnotation
    \/ Respond

SpecScript == Init /\ [][NextScript]_vars

(***************************************************************************)
(* The print capture of the web application (print_capture.py).  A sixth   *)
(* specification follows the one PrintCapture: a thread that prints        *)
(* through custom_print, the thread of _monitor_buffers, the start and the *)
(* stop of the capture (web_app.py 104 and 121) and get_print_messages.    *)
(* A StringIO is its value and its position, both counted in lines; each   *)
(* of its methods is atomic.  The request holds the fields of the object   *)
(* and the locals of the threads, pc the position of either thread, nreq   *)
(* the lines printed and prev every message put on print_queue so far.     *)
(***************************************************************************)
MaxPrints == 2

Streams == { "stdout", "stderr" }
\* The text of a print call: some text or none (a blank line)
PrintTexts == { "text", "" }
\* The k-th line printed; as a message it may carry the "ERROR: " of line
\* 93 and the NUL padding a StringIO writes before a write past its end.
PrintedLine(k, text) == [id |-> k, text |-> text, error |-> FALSE, padded |-> FALSE]

EmptyBuffer == [value |-> << >>, at |-> 0]
\* StringIO.write of one line at the position
BufferWrite(buffer, line) ==
    IF buffer.at > Len(buffer.value)
      THEN [value |-> Append(buffer.value, [line EXCEPT !.padded = TRUE]),
            at |-> buffer.at + 1]
    ELSE IF buffer.at = Len(buffer.value)
      THEN [value |-> Append(buffer.value, line), at |-> buffer.at + 1]
    ELSE [value |-> [buffer.value EXCEPT ![buffer.at + 1] = line],
          at |-> buffer.at + 1]

\* line.strip() is true
NonBlank(line) == line.text # "" \/ line.padded

\* lines 80-82 and 90-92: the messages the monitor puts for what it read
Emitted(content, stream) ==
    LET kept == SelectSeq(content, NonBlank)
    IN  [i \in DOMAIN kept |-> [kept[i] EXCEPT !.error = (stream = "stderr")]]

\* __init__, lines 22-31, and the threads before the capture starts
NoCapture ==
    [is_capturing |-> FALSE,
     stop_event |-> FALSE,
     stdout |-> EmptyBuffer,        \* stdout_buffer
     stderr |-> EmptyBuffer,        \* stderr_buffer
     print |-> "original",          \* builtins.print
     print_queue |-> << >>,
     content |-> << >>,             \* stdout_content or stderr_content
     message |-> None,              \* message of custom_print
     returned |-> << >>]            \* messages get_print_messages returned
NoThreads == [printer |-> "idle", monitor |-> "none", stream |-> "stdout"]

InitPrint ==
    /\ device = [m \in Modules |-> Empty]
    /\ cfgFiles = EmptyMap
    /\ annFiles = EmptyMap
    /\ knowFiles = EmptyMap
    /\ vector_db = << >>
    /\ file_path_to_vector_id = EmptyMap
    /\ vector_id_to_file_path = EmptyMap
    /\ last_buffer_hash = None
    /\ diskIndex = NoFile
    /\ diskMap = NoMapFile
    /\ pc = NoThreads
    /\ req = NoCapture
    /\ response = "none"
    /\ nreq = 0
    /\ prev = << >>

\* print_queue.put of a sequence of messages, one after the other
QueuePut(messages) ==
    /\ req' = [req EXCEPT !.print_queue = @ \o messages]
    /\ prev' = prev \o messages

\* start_capture, lines 33-52, called once when the web application starts
StartCapture ==
    /\ pc.monitor = "none"
    /\ ~req.is_capturing
    /\ req' = [req EXCEPT !.is_capturing = TRUE, !.stop_event = FALSE,
                          !.print = "custom"]
    /\ pc' = [pc EXCEPT !.monitor = "read", !.stream = "stdout"]
    /\ UNCHANGED << device, files, memory, last_buffer_hash, disk, response,
                    nreq, prev >>

\* stop_capture, lines 54-72, called when the web application shuts down
StopCapture ==
    /\ req.is_capturing
    /\ req' = [req EXCEPT !.is_capturing = FALSE, !.stop_event = TRUE,
                          !.print = "original"]
    /\ UNCHANGED << device, files, memory, last_buffer_hash, disk, response,
                    nreq, prev, pc >>

\* custom_print line 112: the original print writes the line to the file it
\* is given, sys.stdout by default: the buffers while the capture is active
PrintWrite ==
    /\ pc.printer = "idle"
    /\ req.print = "custom"
    /\ nreq < MaxPrints
    /\ nreq' = nreq + 1
    /\ \E text \in PrintTexts, file \in Streams :
         LET line == PrintedLine(nreq + 1, text)
         IN  req' = [req EXCEPT ![file] = BufferWrite(@, line),
                                !.message = line]
    /\ pc' = [pc EXCEPT !.printer = "put"]
    /\ UNCHANGED << device, files, memory, last_buffer_hash, disk, response,
                    prev >>

\* custom_print lines 115-116: the message is put on the queue
PrintPut ==
    /\ pc.printer = "put"
    /\ QueuePut(<< req.message >>)
    /\ pc' = [pc EXCEPT !.printer = "idle"]
    /\ UNCHANGED << device, files, memory, last_buffer_hash, disk, response,
                    nreq >>

\* _monitor_buffers lines 78-79 and 88-89: getvalue; an empty buffer is
\* left alone
MonitorRead ==
    /\ pc.monitor = "read"
    /\ req' = [req EXCEPT !.content = req[pc.stream].value]
    /\ pc' = IF req[pc.stream].value # << >>
               THEN [pc EXCEPT !.monitor = "truncate"]
             ELSE IF pc.stream = "stdout"
               THEN [pc EXCEPT !.stream = "stderr"]
             ELSE [pc EXCEPT !.monitor = "sleep"]
    /\ UNCHANGED << device, files, memory, last_buffer_hash, disk, response,
                    nreq, prev >>

\* lines 80 and 90: truncate(0) empties the buffer and leaves the position
MonitorTruncate ==
    /\ pc.monitor = "truncate"
    /\ req' = [req EXCEPT ![pc.stream].value = << >>]
    /\ pc' = [pc EXCEPT !.monitor = "seek"]
    /\ UNCHANGED << device, files, memory, last_buffer_hash, disk, response,
                    nreq, prev >>

\* lines 81 and 91: seek(0)
MonitorSeek ==
    /\ pc.monitor = "seek"
    /\ req' = [req EXCEPT ![pc.stream].at = 0]
    /\ pc' = [pc EXCEPT !.monitor = "emit"]
    /\ UNCHANGED << device, files, memory, last_buffer_hash, disk, response,
                    nreq, prev >>

\* lines 82-84 and 92-94: the lines read that are not blank are put on the
\* queue
MonitorEmit ==
    /\ pc.monitor = "emit"
    /\ QueuePut(Emitted(req.content, pc.stream))
    /\ pc' = IF pc.stream = "stdout"
               THEN [pc EXCEPT !.monitor = "read", !.stream = "stderr"]
               ELSE [pc EXCEPT !.monitor = "sleep"]
    /\ UNCHANGED << device, files, memory, last_buffer_hash, disk, response,
                    nreq >>

\* lines 96 and 76: the sleep, then the test of the loop
MonitorSleep ==
    /\ pc.monitor = "sleep"
    /\ pc' = IF req.stop_event
               THEN [pc EXCEPT !.monitor = "done"]
               ELSE [pc EXCEPT !.monitor = "read", !.stream = "stdout"]
    /\ UNCHANGED << device, files, memory, last_buffer_hash, disk, response,
                    nreq, prev, req >>

\* get_print_messages, lines 98-107: the queue is emptied
GetMessages ==
    /\ req.print_queue # << >>
    /\ req' = [req EXCEPT !.returned = req.print_queue, !.print_queue = << >>]
    /\ UNCHANGED << device, files, memory, last_buffer_hash, disk, response,
                    nreq, prev, pc >>

NextPrint ==
    \/ StartCapture
    \/ StopCapture
    \/ PrintWrite
    \/ PrintPut
    \/ MonitorRead
    \/ MonitorTruncate
    \/ MonitorSeek
    \/ MonitorEmit
    \/ MonitorSleep
    \/ GetMessages

SpecPrint == InitPrint /\ [][NextPrint]_vars

(***************************************************************************)
(* The launcher (run_app.py).  A seventh specification follows main from   *)
(* the start of the backend to the exit of the launcher, with its two      *)
(* child processes and the signals it receives.  The request holds the     *)
(* globals and locals of the launcher and what its children do, pc the     *)
(* position of the main thread, nreq the signals delivered so far.         *)
(* signal_handler raises SystemExit in the main thread wherever it is; a   *)
(* SystemExit leaves main through the finally clause when it is raised in  *)
(* the try block of line 186, and the interpreter then runs the cleanup    *)
(* registered with atexit (line 78).                                       *)
(***************************************************************************)
MaxSignals == 2
\* run_app.py line 118
max_retries == 30

\* A child process is not started ("none"), "running", sent SIGTERM and
\* still running ("terminating"), ended by itself ("exited") or ended by
\* the SIGTERM or the kill of cleanup ("stopped").
Children == { "backend", "web" }

\* The launcher before line 100.  phase: where cleanup was called from.
NoLaunch ==
    [backend |-> "none",            \* the process of backend_process
     web |-> "none",                \* the process of web_process
     retry_count |-> 0,
     backend_ready |-> FALSE,
     status |-> -1,                 \* the exit status, -1 while none is set
     phase |-> "main",              \* "main", "finally" or "atexit"
     failed |-> FALSE,              \* the start of the backend has failed
     running |-> FALSE]             \* line 180 was reached

InitLaunch ==
    /\ device = [m \in Modules |-> Empty]
    /\ cfgFiles = EmptyMap
    /\ annFiles = EmptyMap
    /\ knowFiles = EmptyMap
    /\ vector_db = << >>
    /\ file_path_to_vector_id = EmptyMap
    /\ vector_id_to_file_path = EmptyMap
    /\ last_buffer_hash = None
    /\ diskIndex = NoFile
    /\ diskMap = NoMapFile
    /\ pc = "start"
    /\ req = NoLaunch
    /\ response = "none"
    /\ nreq = 0
    /\ prev = NoSync

\* process.poll() is not None
Polled(child) == child \in { "exited", "stopped" }

\* A launcher that takes the backend for ready whatever the checks said:
\* the faulty variant of NotReady against which C36 is tested.
ReadyUnchecked(backend_ready) == FALSE
\* line 142
NotReady(backend_ready) == ~backend_ready

\* The interpreter exits: the cleanup registered at line 78 runs.
AtExit(code) ==
    /\ pc' = "terminate_backend"
    /\ req' = [req EXCEPT !.phase = "atexit", !.status = code]

\* lines 87-114: the backend is started
StartBackend ==
    /\ pc = "start"
    /\ req' = [req EXCEPT !.backend = "running"]
    /\ pc' = "wait"
    /\ UNCHANGED << device, files, memory, last_buffer_hash, disk, response,
                    nreq, prev >>

\* lines 122-129 and 61-67: one round of the wait loop.  The check gets
\* status 200 only from a backend that runs; it gets another status or a
\* ConnectionError (False), or another exception, which ends the launcher.
\* The loop ends on a success or with the last attempt; the start of the
\* backend has failed when the last attempt has.
Attempt ==
    /\ pc = "wait"
    /\ \E answer \in { "200", "no", "raises" } :
         /\ answer = "200" => req.backend = "running"
         /\ IF answer = "raises"
              THEN /\ pc' = "terminate_backend"
                   /\ req' = [req EXCEPT !.retry_count = @ + 1,
                                         !.phase = "atexit", !.status = 1]
              ELSE /\ req' = [req EXCEPT
                            !.retry_count = @ + 1,
                            !.backend_ready = (answer = "200"),
                            !.failed = @ \/ (answer = "no" /\
                                              req.retry_count + 1 = max_retries)]
                   /\ pc' = IF answer = "200" \/ req.retry_count + 1 = max_retries
                              THEN "check_backend" ELSE "wait"
    /\ UNCHANGED << device, files, memory, last_buffer_hash, disk, response,
                    nreq, prev >>

\* lines 132-140
CheckBackend ==
    /\ pc = "check_backend"
    /\ IF Polled(req.backend)
         THEN AtExit(1)
         ELSE pc' = "check_ready" /\ UNCHANGED req
    /\ UNCHANGED << device, files, memory, last_buffer_hash, disk, response,
                    nreq, prev >>

\* lines 142-144
CheckReady ==
    /\ pc = "check_ready"
    /\ IF NotReady(req.backend_ready)
         THEN AtExit(1)
         ELSE pc' = "start_web" /\ UNCHANGED req
    /\ UNCHANGED << device, files, memory, last_buffer_hash, disk, response,
                    nreq, prev >>

\* lines 146-163: the web application is started
StartWeb ==
    /\ pc = "start_web"
    /\ req' = [req EXCEPT !.web = "running"]
    /\ pc' = "settle"
    /\ UNCHANGED << device, files, memory, last_buffer_hash, disk, response,
                    nreq, prev >>

\* lines 167-183
Settle ==
    /\ pc = "settle"
    /\ IF Polled(req.web)
         THEN AtExit(1)
         ELSE pc' = "monitor" /\ req' = [req EXCEPT !.running = TRUE]
    /\ UNCHANGED << device, files, memory, last_buffer_hash, disk, response,
                    nreq, prev >>

\* lines 186-210 and 213-214: a round of the monitor loop that finds a
\* child ended leaves the loop, and the finally clause calls cleanup
Monitor ==
    /\ pc = "monitor"
    /\ Polled(req.backend) \/ Polled(req.web)
    /\ pc' = "terminate_backend"
    /\ req' = [req EXCEPT !.phase = "finally"]
    /\ UNCHANGED << device, files, memory, last_buffer_hash, disk, response,
                    nreq, prev >>

\* cleanup lines 27-29 and 36-38: terminate() when the process was started
Terminate(child) ==
    /\ pc = "terminate_" \o child
    /\ req' = [req EXCEPT ![child] = IF @ = "running" THEN "terminating" ELSE @]
    /\ pc' = IF req[child] = "none"
               THEN (IF child = "backend" THEN "terminate_web" ELSE "cleaned")
               ELSE "wait_" \o child
    /\ UNCHANGED << device, files, memory, last_buffer_hash, disk, response,
                    nreq, prev >>

\* cleanup lines 30-34 and 39-43: the process ends within the 5 seconds
\* or is killed after them
Wait(child) ==
    /\ pc = "wait_" \o child
    /\ req' = [req EXCEPT ![child] = IF @ = "terminating" THEN "stopped" ELSE @]
    /\ pc' = IF child = "backend" THEN "terminate_web" ELSE "cleaned"
    /\ UNCHANGED << device, files, memory, last_buffer_hash, disk, response,
                    nreq, prev >>

\* cleanup line 45 and what follows its return: after the finally clause
\* main returns (or the SystemExit goes on) and the interpreter exits, which
\* runs the cleanup of atexit; after that one the launcher is gone
Cleaned ==
    /\ pc = "cleaned"
    /\ IF req.phase = "finally"
         THEN AtExit(IF req.status = -1 THEN 0 ELSE req.status)
         ELSE pc' = "exited" /\ UNCHANGED req
    /\ UNCHANGED << device, files, memory, last_buffer_hash, disk, response,
                    nreq, prev >>

\* signal_handler, lines 47-50, on SIGINT or SIGTERM: sys.exit(0) in the
\* main thread.  In the try block it is followed by the finally clause; in
\* the cleanup of the finally clause it ends that cleanup and the
\* interpreter exits; in the cleanup of atexit it ends that cleanup, the
\* last thing the interpreter runs.
Signal ==
    /\ pc # "exited"
    /\ nreq < MaxSignals
    /\ nreq' = nreq + 1
    /\ IF pc = "monitor"
         THEN /\ pc' = "terminate_backend"
              /\ req' = [req EXCEPT !.phase = "finally", !.status = 0]
       ELSE IF req.phase = "atexit"
         THEN /\ pc' = "exited"
              /\ UNCHANGED req
       ELSE AtExit(0)
    /\ UNCHANGED << device, files, memory, last_buffer_hash, disk, response,
                    prev >>

\* A child process ends by itself, or on the SIGTERM before cleanup waits
\* for it.  The start of the backend has failed when the backend ends
\* before the launcher has looked at it (line 132).
ChildExits(child) ==
    /\ pc # "exited"
    /\ req[child] \in { "running", "terminating" }
    /\ req' = [req EXCEPT
          ![child] = IF @ = "running" THEN "exited" ELSE "stopped",
          !.failed = @ \/ (child = "backend" /\ req.backend = "running"
                             /\ pc \in { "wait", "check_backend" })]
    /\ UNCHANGED << device, files, memory, last_buffer_hash, disk, response,
                    nreq, prev, pc >>

NextLaunch ==
    \/ StartBackend
    \/ Attempt
    \/ CheckBackend
    \/ CheckReady
    \/ StartWeb
    \/ Settle
    \/ Monitor
    \/ \E child \in Children : Terminate(child)
    \/ \E child \in Children : Wait(child)
    \/ Cleaned
    \/ Signal
    \/ \E child \in Children : ChildExits(child)

SpecLaunch == InitLaunch /\ [][NextLaunch]_vars

(***************************************************************************)
(* Properties                                                              *)
(***************************************************************************)
\* A sync operation completes: the full sync saves the mapping (line 253),
\* the module-scoped sync does (line 212), or the registration of a
\* knowledge unit does (line 472).
SyncCompletes ==
    \/ pc = "fs_save_mappings" /\ pc' = "retrieve"
    \/ pc = "ms_save_mappings" /\ pc' = "ku_write"
    \/ pc = "ku_save_mappings" /\ pc' = "ku_annotation"

Inverse(f2i, i2f) ==
    /\ \A p \in DOMAIN f2i : f2i[p] \in DOMAIN i2f /\ i2f[f2i[p]] = p
    /\ \A v \in DOMAIN i2f : i2f[v] \in DOMAIN f2i /\ f2i[i2f[v]] = v

VectorsWithId(db, vector_id) == {i \in DOMAIN db : db[i].id = vector_id}

\* C1: after every completed sync operation the two dictionaries are exact
\* inverses of each other (so no two paths share an id and both have the
\* same number of entries).
C1_MappingIsInverse ==
    [][SyncCompletes =>
        /\ Inverse(file_path_to_vector_id', vector_id_to_file_path')
        /\ Cardinality(DOMAIN file_path_to_vector_id') =
               Cardinality(DOMAIN vector_id_to_file_path')]_vars

\* C2: the id given to a newly added vector is never an id that is still
\* live, so the ids of the vectors in the index are pairwise different.
C2_NewIdNeverLive ==
    \A i, j \in DOMAIN vector_db :
        vector_db[i].id = vector_db[j].id => i = j

\* C3: after any sequence of completed syncs every chunk file has exactly
\* one path_to_id entry and exactly one vector in the index.
C3_OneVectorPerChunk ==
    [][SyncCompletes =>
        \A f \in DOMAIN cfgFiles' :
            /\ f \in DOMAIN file_path_to_vector_id'
            /\ Cardinality(VectorsWithId(vector_db',
                                         file_path_to_vector_id'[f])) = 1]_vars

\* An id resolves: id_to_path has it and the file it names exists.
ResolvesIn(vector_id, i2f, cfg, know) ==
    /\ vector_id \in DOMAIN i2f
    /\ i2f[vector_id] \in DOMAIN cfg \cup DOMAIN know

\* C4: after any sequence of syncs every vector id held by the index
\* resolves through id_to_path to a file that exists (no orphan vector).
C4_NoOrphanVector ==
    [][SyncCompletes =>
        \A i \in DOMAIN vector_db' :
            ResolvesIn(vector_db'[i].id, vector_id_to_file_path',
                       cfgFiles', knowFiles')]_vars

\* C5: whenever the process can stop, the index file and the mapping file
\* describe the same set of vector ids.
C5_DiskFilesAgree ==
    {diskIndex.vectors[i].id : i \in DOMAIN diskIndex.vectors} =
        DOMAIN LoadIdToFile(diskMap)

\* C6: a module-scoped sync of the packages of the sync just before it,
\* with their texts unchanged, leaves the same chunk file names and as many
\* mapping entries for them as the sync before it did.
C6_ResyncIdempotent ==
    [][(/\ pc = "ms_save_mappings"
        /\ pc' = "ku_write"
        /\ prev.since = "running"
        /\ prev.packages = req.packages
        /\ \A m \in req.packages : prev.texts[m] = device[m])
       => (/\ ChunkFilesOf(req.packages, cfgFiles) = prev.names
           /\ Cardinality(ChunkFilesOf(req.packages, cfgFiles)
                            \cap DOMAIN file_path_to_vector_id) = prev.card)]_vars

\* The id found is mapped by id_to_path to a chunk file that the latest
\* module-scoped sync deleted and that does not exist.
MapsToDeletedChunk(hit) ==
    /\ hit.id \in DOMAIN vector_id_to_file_path
    /\ vector_id_to_file_path[hit.id] \in prev.removed
    /\ vector_id_to_file_path[hit.id] \notin DOMAIN cfgFiles

\* C7: after a module-scoped sync has deleted the chunk files of its
\* packages, no search returns an id that id_to_path maps to one of the
\* deleted chunk files.
C7_NoDeletedChunkFound ==
    pc = "llm" => \A i \in DOMAIN req.hits : ~MapsToDeletedChunk(req.hits[i])

\* C8: a module-scoped sync that removes r old chunk files and adds a new
\* ones changes the cardinality of both dictionaries by a - r, and leaves
\* no id_to_path entry that names a chunk file of its packages that does
\* not exist.
C8_CardinalityDelta ==
    [][(pc = "ms_save_mappings" /\ pc' = "ku_write") =>
        LET a == Len(req.updated_chunks)
            r == Cardinality(req.old_config_files)
        IN  /\ Cardinality(DOMAIN file_path_to_vector_id') =
                  prev.path_to_id + a - r
            /\ Cardinality(DOMAIN vector_id_to_file_path') =
                  prev.id_to_path + a - r
            /\ \A v \in DOMAIN vector_id_to_file_path' :
                  (\E p \in req.packages :
                      GlobPart(SafeName(p), vector_id_to_file_path'[v]))
                  => vector_id_to_file_path'[v] \in DOMAIN cfgFiles']_vars

\* C9: a request whose sync could not save the index or the mapping does
\* not return success.
C9_PersistFailureReported ==
    [][(pc = "respond" /\ req.caught \in {"write_index", "save_mappings"})
         => response' # "ok"]_vars

\* C10: a request whose module-scoped sync could not fetch a module's text
\* does not return success.
C10_FetchFailureReported ==
    [][(pc = "respond" /\ req.caught = "fetch") => response' # "ok"]_vars

\* C11: a failure of get_embedding is fatal to the request and surfaced to
\* its caller: the request whose query could not be embedded ends in an
\* error, and so does the request whose new chunk or knowledge unit could
\* not be embedded during a sync.
C11_EmbeddingFailureSurfaced ==
    [][/\ (pc = "retrieve" /\ pc' = "idle") => response' = "error"
       /\ (pc = "fs_add" /\ pc' = "idle") => response' = "error"
       /\ (pc = "respond" /\ req.caught = "embedding") => response' # "ok"]_vars

\* The vectors the step adds to the index.
AddedVectors == {vector_db'[i] : i \in (Len(vector_db) + 1)..Len(vector_db')}

TextOf(hit) == ReadFile(vector_id_to_file_path[hit.id])

\* C13: when retrieve has returned, no error was raised for an id without
\* a mapping entry or with a missing file; the text of every result that
\* resolves is in what it returned, whatever came before it; and when no
\* result resolves it returned nothing.
C13_UnresolvedIdSkipped ==
    pc = "llm" =>
        /\ response # "error"
        /\ \A i \in DOMAIN req.hits :
              Resolves(req.hits[i].id) =>
                  \E j \in DOMAIN req.relevant : req.relevant[j] = TextOf(req.hits[i])
        /\ (\A i \in DOMAIN req.hits : ~Resolves(req.hits[i].id))
              => req.relevant = << >>

\* C13 happens: retrieve has returned after a search whose first result is
\* a stored vector that does not resolve and whose second result resolves.
C13_Witness ==
    /\ pc = "llm"
    /\ \E i, j \in DOMAIN req.hits :
          /\ i < j
          /\ req.hits[i].id # -1
          /\ ~Resolves(req.hits[i].id)
          /\ Resolves(req.hits[j].id)

\* The positions of the search results that resolve.
Resolving == {i \in DOMAIN req.hits : Resolves(req.hits[i].id)}

\* C14: retrieve returns the texts of exactly the search results that
\* resolve, in the order of the search, hence at most top_k texts.
C14_RetrieveOrdered ==
    pc = "llm" =>
        /\ Len(req.relevant) = Cardinality(Resolving)
        /\ Len(req.relevant) <= top_k
        /\ \A i \in Resolving :
              req.relevant[Cardinality({j \in Resolving : j <= i})]
                  = TextOf(req.hits[i])

\* C14 happens: retrieve has returned two different texts.
C14_Witness ==
    /\ pc = "llm"
    /\ Len(req.relevant) = 2
    /\ req.relevant[1] # req.relevant[2]

\* Nothing stale of the packages is left: every mapping entry that names a
\* chunk file of theirs names one that exists, and every vector embedded
\* from a chunk of theirs is the vector of a chunk file that exists.
NoStaleOf(pkgs, db, f2i, i2f, cfg) ==
    /\ \A f \in DOMAIN f2i :
          (\E p \in pkgs : GlobPart(SafeName(p), f)) => f \in DOMAIN cfg
    /\ \A v \in DOMAIN i2f :
          (\E p \in pkgs : GlobPart(SafeName(p), i2f[v])) => i2f[v] \in DOMAIN cfg
    /\ \A i \in DOMAIN db :
          (db[i].vec.cmd = 0 /\ db[i].vec.head \in pkgs)
              => \E f \in DOMAIN cfg : cfg[f] = db[i].vec

\* C18: when a module-scoped sync was interrupted and the sync of the same
\* packages is run again and completes, no stale vector and no stale
\* mapping entry of these packages is left.
C18_ReplayLeavesNothingStale ==
    [][(pc = "ms_save_mappings" /\ pc' = "ku_write" /\ prev.replay) =>
          NoStaleOf(req.packages, vector_db', file_path_to_vector_id',
                    vector_id_to_file_path', cfgFiles')]_vars

\* C15: whatever way the summarizer fails for a chunk (a timeout, a
\* malformed response, any other exception), the annotation written for the
\* chunk is the fallback text built from the module name and the sequence
\* number, and the chunker run does not fail for it.
C15_AnnotationFallback ==
    /\ \A i \in DOMAIN req.outcome :
          req.outcome[i] \in Failures =>
             /\ AnnotationPath(req.tasks[i].filename) \in DOMAIN annFiles
             /\ annFiles[AnnotationPath(req.tasks[i].filename)]
                   = Fallback(req.tasks[i].pkg, req.tasks[i].chunk_num)
    /\ (\E i \in DOMAIN req.outcome : req.outcome[i] \in Failures)
          => response # "error"

C15_Witness ==
    /\ CanRegister
    /\ Len(req.tasks) = 2
    /\ {req.outcome[i] : i \in DOMAIN req.outcome} = {"timeout", "malformed"}

\* C16: the registration of a chunk in the vector index does not wait for
\* the annotation of the chunk: while an annotation of the run is still
\* outstanding, the registration can begin.
C16_RegistrationDoesNotWait ==
    (pc = "annotate" /\ req.pending # {}) => CanRegister

\* C19: a chunker run on a non-empty input writes at least one chunk, also
\* when the first lines of the input precede every package declaration and
\* when the only chunk of the input equals the last chunk the previous run
\* wrote.
C19_NonEmptyInputChunked ==
    req.input # << >> => (response # "error" /\ Len(req.tasks) >= 1)

\* The buffers of the chunks the run wrote, in the order written.
Bodies == [i \in DOMAIN req.tasks |-> cfgFiles[req.tasks[i].filename].body]

\* The chunk bodies give back the text: every body is some lines repeated
\* from the end of what the chunks before it gave (at most overlap of them)
\* followed by the lines of the text that come next, and no line is left.
RECURSIVE Reconstructs(_, _, _)
Reconstructs(bodies, seen, rest) ==
    IF bodies = << >> THEN rest = << >>
    ELSE LET body == Head(bodies)
         IN  \E k \in 0..Len(body) :
                /\ k <= overlap
                /\ k <= Len(seen)
                /\ SubSeq(body, 1, k) = SubSeq(seen, Len(seen) - k + 1, Len(seen))
                /\ Len(body) - k <= Len(rest)
                /\ SubSeq(body, k + 1, Len(body)) = SubSeq(rest, 1, Len(body) - k)
                /\ Reconstructs(Tail(bodies),
                                seen \o SubSeq(rest, 1, Len(body) - k),
                                SubSeq(rest, Len(body) - k + 1, Len(rest)))

\* C20: the chunks a run writes hold every line of the input in the order of
\* the input: their bodies, without the lines an overlap repeats, give back
\* the input, also when the input repeats a section.
C20_ChunksReconstructInput ==
    req.input # << >> => Reconstructs(Bodies, << >>, req.input)

\* The requests whose task is inside a sync operation: the running task at
\* a step of a sync, and the suspended tasks that stopped inside one.
InFlight ==
    {h \in 1..nreq :
        \/ req.running = h /\ pc \in SyncSteps
        \/ \E i \in DOMAIN req.ready :
              req.ready[i].h = h /\ req.ready[i].at \in SyncSteps}

\* C17: at most one sync operation, full or module-scoped, is in flight at
\* any time: while the task of one request is inside a sync, the task of no
\* other request is, so the mutations of two syncs never interleave.
C17_OneSyncInFlight ==
    Cardinality(InFlight) <= 1

C17_Witness ==
    /\ pc = "ms_generate"
    /\ Len(req.ready) = 2

\* The structural units of some lines: a unit starts at the first line, at
\* a package declaration and at a config header, and ends before the next
\* start.
UnitStarts(lines) ==
    {i \in DOMAIN lines :
        i = 1 \/ package_pattern(lines[i]) \/ config_header_pattern(lines[i])}
UnitAt(lines, i) ==
    LET later == {j \in UnitStarts(lines) : j > i}
        end == IF later = {} THEN Len(lines)
               ELSE (CHOOSE j \in later : \A l \in later : j <= l) - 1
    IN  SubSeq(lines, i, end)
OversizeUnit(lines) ==
    \E i \in UnitStarts(lines) : SumLen(UnitAt(lines, i)) > max_chunk_size

\* A step of the chunker writes a chunk: the task of the chunk.
Written == Len(req'.tasks) > Len(req.tasks)
NewTask == req'.tasks[Len(req'.tasks)]

\* The text of a chunk is within the limit but for its overlap: after at
\* most overlap leading lines that repeat the end of the chunk written
\* before it, the rest is no longer than max_chunk_size.
WithinLimit(body, before) ==
    \E k \in 0..Len(body) :
       /\ k <= overlap
       /\ k <= Len(before)
       /\ SubSeq(body, 1, k) = SubSeq(before, Len(before) - k + 1, Len(before))
       /\ SumLen(SubSeq(body, k + 1, Len(body))) <= max_chunk_size

AtBoundary ==
    /\ pc = "lines" /\ pc' = "lines"
    /\ req.rest # << >>
    /\ package_pattern(Head(req.rest))

\* C22: at a package declaration the buffer is flushed as a chunk of the
\* package before (written unless it repeats the chunk written last) and
\* the buffer of the new package starts with the declaration alone, no line
\* carried over; every chunk written is headed by the package that each
\* package declaration in it names.
C22_SplitAtModuleBoundary ==
    [][/\ AtBoundary =>
             /\ req'.cur = Head(req.rest).pkg
             /\ req'.buffer = << Head(req.rest) >>
             /\ (req.buffer # << >> /\ Md5(req.buffer) # last_buffer_hash)
                   => Written
             /\ Written => /\ NewTask.pkg = req.cur
                           /\ NewTask.buffer_content = req.buffer
       /\ Written =>
             /\ cfgFiles'[NewTask.filename].head = NewTask.pkg
             /\ \A j \in DOMAIN NewTask.buffer_content :
                   package_pattern(NewTask.buffer_content[j])
                      => NewTask.buffer_content[j].pkg = NewTask.pkg]_vars

\* Two chunks of two packages were written, the first one with a unit in it.
C22_Witness ==
    /\ Len(req.tasks) >= 2
    /\ req.tasks[1].pkg # req.tasks[2].pkg
    /\ \E j \in DOMAIN req.tasks[1].buffer_content :
          config_header_pattern(req.tasks[1].buffer_content[j])
    /\ req.cur = req.tasks[2].pkg

\* The steps of the module-scoped sync.
MsSteps ==
    { "ms_collect", "ms_remove", "ms_unlink", "ms_generate", "ms_add",
      "ms_write_index", "ms_save_mappings" }

\* A step leaves the knowledge units as they are: the file, the entry of the
\* file in each dictionary, and the vectors embedded from knowledge units.
KnowledgeUnchanged ==
    /\ \A k \in DOMAIN knowFiles :
          /\ k \in DOMAIN knowFiles' /\ knowFiles'[k] = knowFiles[k]
          /\ k \in DOMAIN file_path_to_vector_id =>
                /\ k \in DOMAIN file_path_to_vector_id'
                /\ file_path_to_vector_id'[k] = file_path_to_vector_id[k]
          /\ \A id \in DOMAIN vector_id_to_file_path :
                vector_id_to_file_path[id] = k =>
                   /\ id \in DOMAIN vector_id_to_file_path'
                   /\ vector_id_to_file_path'[id] = k
    /\ \A i \in DOMAIN vector_db :
          vector_db[i].vec = GetEmbedding(KnowledgeContent(vector_db[i].vec.cmd,
                                                           vector_db[i].vec.script))
             => \E j \in DOMAIN vector_db' : vector_db'[j] = vector_db[i]

Saved ==
    /\ diskIndex = WriteIndex(vector_db)
    /\ diskMap = SaveMappings(file_path_to_vector_id, vector_id_to_file_path)

\* The process starts: the module is loaded anew.
Starts == pc' = "idle" /\ last_buffer_hash' = None /\ req' = NoRequest

\* C24: when the index and the mappings were saved and the process then
\* starts and loads them, both dictionaries are the ones saved and the id
\* the next vector gets is the one it would have got without the restart.
C24_SaveLoadRoundTrip ==
    [][(Saved /\ Starts /\ nreq' = nreq) =>
          /\ file_path_to_vector_id' = file_path_to_vector_id
          /\ vector_id_to_file_path' = vector_id_to_file_path
          /\ vector_db' = vector_db
          /\ ntotal(vector_db') = ntotal(vector_db)]_vars

\* The process has started again on a saved index of two vectors or more.
C24_Witness ==
    /\ pc = "idle"
    /\ nreq > 0
    /\ last_buffer_hash = None
    /\ Saved
    /\ ntotal(vector_db) >= 2
    /\ Cardinality(DOMAIN vector_id_to_file_path) >= 2

\* C25: in a module-scoped sync the mapping entries of the old chunks are
\* deleted only when the remove call on the index has returned: when the
\* call fails both dictionaries are as they were, and when it returns the
\* entries of the old chunks are gone from both.
C25_EntriesRemovedAfterVectors ==
    [][pc = "ms_remove" =>
          /\ req'.caught = "remove_ids" =>
                /\ file_path_to_vector_id' = file_path_to_vector_id
                /\ vector_id_to_file_path' = vector_id_to_file_path
          /\ pc' = "ms_unlink" =>
                /\ DOMAIN file_path_to_vector_id' \cap req.old_config_files = {}
                /\ \A f \in req.old_config_files \cap DOMAIN file_path_to_vector_id :
                      file_path_to_vector_id[f] \notin DOMAIN vector_id_to_file_path'
                /\ \A v \in DOMAIN vector_db' :
                      \A f \in req.old_config_files \cap DOMAIN file_path_to_vector_id :
                          vector_db'[v].id # file_path_to_vector_id[f]]_vars

\* The remove call has failed in a sync that had old chunks with entries.
C25_Witness ==
    /\ pc = "respond"
    /\ req.caught = "remove_ids"
    /\ req.old_config_files \cap DOMAIN file_path_to_vector_id # {}
    /\ \E f \in req.old_config_files \cap DOMAIN file_path_to_vector_id :
          /\ file_path_to_vector_id[f] \in DOMAIN vector_id_to_file_path
          /\ vector_id_to_file_path[file_path_to_vector_id[f]] = f

Headers(lines) == {j \in DOMAIN lines : config_header_pattern(lines[j])}

\* The chunker reads a line that would exceed the limit, with a config
\* header in the buffer, and goes on.
AtLimitWithHeader ==
    /\ pc = "lines" /\ pc' = "lines"
    /\ req.rest # << >>
    /\ ~package_pattern(Head(req.rest))
    /\ req.size + Head(req.rest).len > max_chunk_size
    /\ Headers(req.buffer) # {}

Flushed ==
    IF req.rest = << >> \/ package_pattern(Head(req.rest)) THEN req.buffer
    ELSE IF req.size + Head(req.rest).len > max_chunk_size
      THEN IF Headers(req.buffer) # {}
             THEN SubSeq(req.buffer, 1,
                         CHOOSE j \in Headers(req.buffer) :
                            \A l \in Headers(req.buffer) : l <= j)
             ELSE req.buffer
    ELSE << >>

\* C28: a flushed buffer is skipped exactly when it repeats the chunk
\* written immediately before it: in a step that flushes a buffer and does
\* not fail, a chunk is written if and only if the buffer differs from the
\* buffer of the chunk file written last.
C28_SkipOnlyRepeatOfLastChunk ==
    [][(pc = "lines" /\ Flushed # << >> /\ response' # "error")
          => (Written <=> Flushed # prev)]_vars

\* C29: within a chunker run the chunk files of one package get strictly
\* increasing numbers and no flush writes over a chunk file that exists,
\* whatever files of other packages the directory holds.
C29_SequenceNumbersIncrease ==
    [][Written =>
          /\ NewTask.filename \notin DOMAIN cfgFiles
          /\ NewTask.filename = ChunkPath(SafeName(NewTask.pkg), NewTask.chunk_num)
          /\ \A i \in DOMAIN req.tasks :
                req.tasks[i].pkg = NewTask.pkg
                   => req.tasks[i].chunk_num < NewTask.chunk_num]_vars

\* A run has written two chunks of net into a directory that held a chunk
\* file of net_x, whose name the glob of net matches.
C29_Witness ==
    /\ \E i, j \in DOMAIN req.tasks :
          /\ i < j
          /\ req.tasks[i].pkg = Net /\ req.tasks[j].pkg = Net
          /\ req.tasks[i].chunk_num > 1
    /\ \A i \in DOMAIN req.tasks : req.tasks[i].pkg = Net
    /\ ChunkFilesOf({NetX}, cfgFiles) # {}

\* C30: the full sync starts only when no prior state exists: when
\* sync_and_split_config is entered the index holds no vector and the two
\* dictionaries and the knowledge-unit store are empty.
C30_FullSyncOnlyFromNothing ==
    pc = "fs_connect" =>
       /\ vector_db = << >>
       /\ file_path_to_vector_id = EmptyMap
       /\ vector_id_to_file_path = EmptyMap
       /\ knowFiles = EmptyMap

(***************************************************************************)
(* Annotations and chunks                                                  *)
(***************************************************************************)
\* The annotation files of module chunks (the annotation of a knowledge
\* unit, written at lines 477-479, is named knowledge_<id>.txt).
ChunkAnnotations == {a \in DOMAIN annFiles : ~IsKnowledgeName(a)}
\* A chunker run has returned (full sync: line 237; module-scoped sync: line
\* 190, every round of the loop), or the module-scoped sync has returned.
RunOrSyncCompleted == pc \in {"fs_add", "ms_generate", "ms_add", "ku_write"}

KnowledgeFile == KnowledgePath(KnowledgeId(req.command))
\* Lines 464-469 have run for a file that has a mapping entry already.
RegisteredAgain ==
    /\ pc = "ku_add" /\ pc' = "ku_write_index"
    /\ KnowledgeFile \in DOMAIN file_path_to_vector_id
\* The ids id_to_path gives to the file, and the vectors of the index that
\* carry one of them.
IdsOf(i2f, file_path) == {v \in DOMAIN i2f : i2f[v] = file_path}
VectorsOf(db, i2f, file_path) ==
    {i \in DOMAIN db : db[i].id \in IdsOf(i2f, file_path)}

\* C32: registering the knowledge unit of a command that is registered
\* already leaves one vector and one mapping entry in each direction for its
\* file: the earlier id is left neither in id_to_path nor in the index.
C32_KnowledgeUnitRegisteredOnce ==
    [][RegisteredAgain =>
          /\ KnowledgeFile \in DOMAIN file_path_to_vector_id'
          /\ IdsOf(vector_id_to_file_path', KnowledgeFile)
                = {file_path_to_vector_id'[KnowledgeFile]}
          /\ Cardinality(VectorsOf(vector_db', vector_id_to_file_path',
                                   KnowledgeFile)) = 1]_vars

(***************************************************************************)
(* The script that runs on the router                                      *)
(***************************************************************************)
\* The script is run on the router by this step.
Runs == pc = "execute" /\ Ran(req'.outcome)
\* A line that is not a comment holds a word of the validator's list.
Dangerous(line) ==
    /\ ~(line # << >> /\ Head(line) = Hash)
    /\ \E j \in DOMAIN line : line[j].kind \in dangerous_commands

\* C33: no script that holds a dangerous command word of the validator
\* anywhere on a line that is not a comment is run on the router, be the
\* word behind a double quote or a '#' of its line.
C33_NoDangerousScriptRuns ==
    [][Runs => \A i \in DOMAIN req.result : ~Dangerous(req.result[i])]_vars

(***************************************************************************)
(* The order of the steps of a request                                     *)
(***************************************************************************)
\* The request comes to the step at.
Enters(at) == pc # at /\ pc' = at

\* C34: in a request the script is sent to the router only when the
\* validation has passed, and as the validator returned it; the
\* module-scoped sync starts only when the execution has succeeded; the
\* knowledge unit is written and registered only when the module-scoped
\* sync has returned without an error.
C34_StepsGated ==
    [][/\ Enters("execute") =>
             /\ pc = "validate"
             /\ \A l \in DOMAIN req.script :
                   \A i \in DOMAIN Examined(req.script[l]) :
                      Examined(req.script[l])[i].kind \notin dangerous_commands
             /\ req'.result = Hardened(req.script)
       /\ req'.outcome # req.outcome /\ req'.outcome # "none" =>
             pc = "execute" /\ req.result # None
       /\ Enters("packages") => pc = "executed" /\ req.outcome = "ok"
       /\ Enters("ms_collect") => pc = "packages" /\ req.outcome = "ok"
       /\ Enters("ku_write") =>
             /\ pc = "ms_save_mappings"
             /\ req.caught = "none"
             /\ req.outcome = "ok"
             /\ diskMap' = SaveMappings(file_path_to_vector_id,
                                        vector_id_to_file_path)
       /\ knowFiles' # knowFiles => pc = "ku_write"
       /\ (\E f \in DOMAIN file_path_to_vector_id' \ DOMAIN file_path_to_vector_id :
               IsKnowledgeName(f)) => pc = "ku_add"]_vars

\* The knowledge unit of a request is registered: its script passed the
\* validation, ran without error and the module-scoped sync returned.
C34_Witness ==
    /\ pc = "ku_write_index"
    /\ req.outcome = "ok"
    /\ req.packages # {}
    /\ req.caught = "none"
    /\ KnowledgePath(KnowledgeId(req.command)) \in DOMAIN file_path_to_vector_id

(***************************************************************************)
(* The lines printed and the message queue                                 *)
(***************************************************************************)
\* How often the k-th line printed was put on the queue so far.
TimesQueued(k) == Cardinality({i \in DOMAIN prev : prev[i].id = k})
\* The lines whose print call has returned, and those of them that were
\* blank (a line is known by the messages put for it).
Printed == {k \in 1..nreq : pc.printer = "put" => k # nreq}
Blank(k) == \E i \in DOMAIN prev : prev[i].id = k /\ ~NonBlank(prev[i])

\* C35: every line printed while the capture is active is put on the
\* message queue, and one that is not blank is put on it once: it is not
\* lost and it is not queued by custom_print and by the monitor both.
C35_PrintedLineQueuedOnce ==
    \A k \in Printed :
        /\ TimesQueued(k) >= 1
        /\ ~Blank(k) => TimesQueued(k) = 1

(***************************************************************************)
(* The launcher                                                            *)
(***************************************************************************)
\* A signal ended the launcher: its exit status is the 0 of line 50.
Interrupted == nreq > 0 /\ req.status = 0

\* C36 as stated: the web application is started only when a readiness
\* check has succeeded; when the backend has ended or none of the 30
\* checks has succeeded, the web application is never started and the
\* launcher exits with the status of a failure.
C36_FailedStartExitsWithFailure ==
    /\ req.web # "none" => req.backend_ready
    /\ req.failed => /\ req.web = "none"
                     /\ pc = "exited" => req.status = 1

\* C36 amended: the same, but a launcher that SIGINT or SIGTERM ends exits
\* with status 0, also when the start of the backend has failed.
C36_FailedStartExitsUnlessInterrupted ==
    /\ req.web # "none" => req.backend_ready
    /\ req.failed => /\ req.web = "none"
                     /\ pc = "exited" => req.status = 1 \/ Interrupted

\* The 30 checks have failed, no signal came, and the launcher has exited
\* with status 1 without the web application.
C36_Witness ==
    /\ pc = "exited"
    /\ req.retry_count = max_retries
    /\ ~req.backend_ready
    /\ req.failed
    /\ nreq = 0
    /\ req.status = 1
    /\ req.web = "none"
    /\ req.backend = "stopped"

\* C37: when both services were running and the launcher has exited, no
\* child process that was started is left running.
C37_NoChildOutlivesLauncher ==
    pc = "exited" /\ req.running =>
        \A child \in Children : req[child] \in { "exited", "stopped" }

====
